---- MODULE Spec2Model ----
(***************************************************************************)
(* Model of the invoice validator's reconciliation engine                  *)
(* (backend/app/services/document_processor.py,                            *)
(*  DocumentProcessor.compare_invoice_with_contract_async) and of the      *)
(* line-item normalizer (backend/app/models/document_models.py,            *)
(*  InvoiceItemModel).                                                     *)
(*                                                                         *)
(* Conventions                                                             *)
(*   - a Python string is a tuple of one-character strings;                *)
(*   - a loosely typed JSON value is a pair <<tag, n>>:                    *)
(*       <<"absent",0>>  the key is missing from the dict                  *)
(*       <<"none",0>>    null / None                                       *)
(*       <<"bad",0>>     a non-empty string float() cannot parse ("abc")   *)
(*       <<"num",n>>     the JSON number n/1000 (n in thousandths)         *)
(*       <<"numstr",n>>  a string float() parses to n/1000 ("100.5")       *)
(*   - a float is the IEEE-754 double nearest to n/1000; sums and          *)
(*     differences of doubles are computed bit-exactly (see the float      *)
(*     section), products of the normalizer exactly in thousandths.        *)
(***************************************************************************)
EXTENDS Integers, Sequences, FiniteSets, TLC

----------------------------------------------------------------------------
(* Loosely typed values *)

Absent == <<"absent", 0>>
NoneV == <<"none", 0>>
Bad == <<"bad", 0>>
Num(n) == <<"num", n>>
NumStr(n) == <<"numstr", n>>

\* float(v) raises ValueError / TypeError
FloatRaises(v) == v[1] \in {"bad", "none", "absent"}

\* float(v) for a value float() accepts, in thousandths
FloatOf(v) == v[2]

\* bool(v): Python truthiness of a JSON value
Truthy(v) ==
    CASE v[1] = "num" -> v[2] # 0
      [] v[1] \in {"bad", "numstr"} -> TRUE
      [] OTHER -> FALSE

----------------------------------------------------------------------------
(* Strings: tuples of characters *)

Space == " "

LowerMap ==
    ("A" :> "a") @@ ("B" :> "b") @@ ("C" :> "c") @@ ("D" :> "d") @@
    ("E" :> "e") @@ ("F" :> "f") @@ ("G" :> "g") @@ ("H" :> "h") @@
    ("I" :> "i") @@ ("J" :> "j") @@ ("K" :> "k") @@ ("L" :> "l") @@
    ("M" :> "m") @@ ("N" :> "n") @@ ("O" :> "o") @@ ("P" :> "p") @@
    ("Q" :> "q") @@ ("R" :> "r") @@ ("S" :> "s") @@ ("T" :> "t") @@
    ("U" :> "u") @@ ("V" :> "v") @@ ("W" :> "w") @@ ("X" :> "x") @@
    ("Y" :> "y") @@ ("Z" :> "z")

\* str.lower()
lower(s) == [i \in 1..Len(s) |-> IF s[i] \in DOMAIN LowerMap THEN LowerMap[s[i]] ELSE s[i]]

\* str.split(): the maximal runs of non-whitespace characters, in order
RECURSIVE SplitFrom(_, _, _)
SplitFrom(s, i, cur) ==
    IF i > Len(s)
    THEN IF cur = <<>> THEN <<>> ELSE <<cur>>
    ELSE IF s[i] = Space
         THEN (IF cur = <<>> THEN <<>> ELSE <<cur>>) \o SplitFrom(s, i + 1, <<>>)
         ELSE SplitFrom(s, i + 1, Append(cur, s[i]))

split(s) == SplitFrom(s, 1, <<>>)

\* " ".join(words)
RECURSIVE join(_)
join(ws) ==
    IF ws = <<>> THEN <<>>
    ELSE IF Len(ws) = 1 THEN ws[1]
    ELSE ws[1] \o <<Space>> \o join(Tail(ws))

\* a in b  (Python substring test; the empty string is in every string)
IsSubstring(a, b) ==
    \E i \in 0..(Len(b) - Len(a)) : SubSeq(b, i + 1, i + Len(a)) = a

\* set(s.split())
WordSet(s) == {split(s)[i] : i \in 1..Len(split(s))}

\* " ".join(name.lower().split())
NormName(s) == join(split(lower(s)))

----------------------------------------------------------------------------
(* IEEE-754 doubles.  A non-negative double below 2^19 is written as the   *)
(* natural number  value * 2^FracBits, itself a tuple of bits, most        *)
(* significant first, without leading zeros (zero is the empty tuple).     *)
(* The operators are written without carried recursion: a carry is the     *)
(* bit of the nearest lower position that generates or kills one.          *)

FracBits == 64
Mantissa == 53

Zeros(k) == [i \in 1..k |-> 0]

RECURSIVE NatBits(_)
NatBits(n) == IF n = 0 THEN <<>> ELSE Append(NatBits(n \div 2), n % 2)

\* drop the leading zero bits
Strip(b) ==
    IF \A i \in 1..Len(b) : b[i] = 0 THEN <<>>
    ELSE SubSeq(b, CHOOSE i \in 1..Len(b) : b[i] = 1 /\ \A j \in 1..(i - 1) : b[j] = 0, Len(b))

PadTo(b, n) == Zeros(n - Len(b)) \o b

\* 2^m mod 1000
RECURSIVE Pow2Mod(_)
Pow2Mod(m) ==
    IF m = 0 THEN 1
    ELSE LET h == Pow2Mod(m \div 2)
         IN (((h * h) % 1000) * (IF m % 2 = 1 THEN 2 ELSE 1)) % 1000

\* the j-th binary digit after the point of n/1000
FracBit(n, j) ==
    IF 2 * (((n % 1000) * Pow2Mod(j - 1)) % 1000) >= 1000 THEN 1 ELSE 0

\* carry into position i of A + B (equal lengths): decided by the nearest
\* lower position whose two bits agree
CarryInto(A, B, i) ==
    IF \A j \in (i + 1)..Len(A) : A[j] # B[j] THEN 0
    ELSE A[CHOOSE j \in (i + 1)..Len(A) :
               A[j] = B[j] /\ \A k \in (i + 1)..(j - 1) : A[k] # B[k]]

BitsAdd(a, b) ==
    LET n == IF Len(a) > Len(b) THEN Len(a) ELSE Len(b)
        A == PadTo(a, n)
        B == PadTo(b, n)
    IN Strip(<<CarryInto(A, B, 0)>> \o
             [i \in 1..n |-> (A[i] + B[i] + CarryInto(A, B, i)) % 2])

\* borrow from position i of A - B (equal lengths, A >= B): decided by the
\* nearest lower position whose two bits differ
BorrowFrom(A, B, i) ==
    IF \A j \in (i + 1)..Len(A) : A[j] = B[j] THEN 0
    ELSE LET j == CHOOSE j \in (i + 1)..Len(A) :
                      A[j] # B[j] /\ \A k \in (i + 1)..(j - 1) : A[k] = B[k]
         IN IF A[j] < B[j] THEN 1 ELSE 0

\* a - b for a >= b
BitsSub(a, b) ==
    LET A == a
        B == PadTo(b, Len(a))
    IN Strip([i \in 1..Len(a) |-> (A[i] - B[i] - BorrowFrom(A, B, i) + 2) % 2])

\* a < b on bit strings without leading zeros
BitsLess(a, b) ==
    IF Len(a) # Len(b) THEN Len(a) < Len(b)
    ELSE \E i \in 1..Len(a) : a[i] < b[i] /\ \A j \in 1..(i - 1) : a[j] = b[j]

BitsLeq(a, b) == a = b \/ BitsLess(a, b)

\* round-to-nearest, ties-to-even, to Mantissa significant bits; sticky says
\* that the exact value lies strictly above b
RoundBits(b, sticky) ==
    IF Len(b) <= Mantissa THEN b
    ELSE LET keep == SubSeq(b, 1, Mantissa)
             guard == b[Mantissa + 1]
             rest == sticky \/ \E i \in (Mantissa + 2)..Len(b) : b[i] = 1
             up == guard = 1 /\ (rest \/ keep[Mantissa] = 1)
             kept == IF up THEN BitsAdd(keep, <<1>>) ELSE keep
         IN kept \o Zeros(Len(b) - Mantissa)

\* the double nearest to n/1000, n >= 0
DoubleOfMilli(n) ==
    IF n = 0 THEN <<>>
    ELSE LET int == NatBits(n \div 1000)
             frac == [j \in 1..FracBits |-> FracBit(n, j)]
             sticky == ((n % 1000) * Pow2Mod(FracBits)) % 1000 # 0
         IN RoundBits(Strip(int \o frac), sticky)

Abs(x) == IF x < 0 THEN -x ELSE x

\* abs(x - y) for the doubles nearest to x/1000 and y/1000
AbsDiff(x, y) ==
    LET ax == DoubleOfMilli(Abs(x))
        ay == DoubleOfMilli(Abs(y))
    IN IF (x < 0 /\ y > 0) \/ (x > 0 /\ y < 0)
       THEN RoundBits(BitsAdd(ax, ay), FALSE)
       ELSE IF BitsLess(ax, ay)
            THEN RoundBits(BitsSub(ay, ax), FALSE)
            ELSE RoundBits(BitsSub(ax, ay), FALSE)

----------------------------------------------------------------------------
(* The documents the calls are made on *)

NoContract == [present |-> FALSE, id |-> "unknown", services |-> <<>>]
NoInvoice == [kind |-> "none", supplier_name |-> Absent, items |-> <<"absent", <<>>>>,
              total |-> Absent]
EmptyDict == [kind |-> "dict", supplier_name |-> Absent, items |-> <<"absent", <<>>>>,
              total |-> Absent]

MaxServices == 2
MaxItems == 2

SeqsUpTo(S, n) == UNION {[1..k -> S] : k \in 0..n}

Service(name, price) == [kind |-> "dict", service_name |-> name, unit_price |-> price]
Item(description, unit_price, total_price) ==
    [kind |-> "dict", description |-> description, unit_price |-> unit_price,
     total_price |-> total_price]
\* an element of items that is not a dict (a bare string)
NotADict == [kind |-> "str", description |-> <<>>, unit_price |-> Absent,
             total_price |-> Absent]
SomeString == <<"str", 0>>

sConsulting == <<"C", "o", "n", "s", "u", "l", "t", "i", "n", "g">>
sConsultingLower == <<"c", "o", "n", "s", "u", "l", "t", "i", "n", "g">>
sConsultingServices == <<"C", "o", "n", "s", "u", "l", "t", "i", "n", "g", " ", "S", "e", "r", "v", "i", "c", "e", "s">>
sDesignWeb == <<"D", "e", "s", "i", "g", "n", " ", "W", "e", "b">>
sWebDesignHosting == <<"W", "e", "b", " ", "D", "e", "s", "i", "g", "n", " ", "H", "o", "s", "t", "i", "n", "g">>
sWebDesignSpaced == <<" ", "W", "e", "b", " ", " ", "D", "e", "s", "i", "g", "n">>
sTravel == <<"T", "r", "a", "v", "e", "l">>
sHostingAndWebDesignServices ==
    <<"H", "o", "s", "t", "i", "n", "g", " ", "a", "n", "d", " ", "W", "e", "b", " ", "D", "e", "s", "i", "g", "n">>
        \o <<" ", "S", "e", "r", "v", "i", "c", "e", "s">>
sWebDesignAndHosting ==
    <<"W", "e", "b", " ", "D", "e", "s", "i", "g", "n", " ", "a", "n", "d", " ", "H", "o", "s", "t", "i", "n", "g">>
sDesignLogo == <<"D", "e", "s", "i", "g", "n", " ", "L", "o", "g", "o">>
sLogoDesignPrint == <<"L", "o", "g", "o", " ", "D", "e", "s", "i", "g", "n", " ", "P", "r", "i", "n", "t">>

Contracts(pool) ==
    {NoContract} \cup
    {[present |-> TRUE, id |-> "c1", services |-> s] : s \in SeqsUpTo(pool, MaxServices)}

Invoices(pool, totals) ==
    {NoInvoice, EmptyDict} \cup
    {[kind |-> "dict", supplier_name |-> SomeString, items |-> its, total |-> t] :
        its \in {<<"absent", <<>>>>, <<"none", <<>>>>}
                \cup {<<"list", s>> : s \in SeqsUpTo(pool, MaxItems)},
        t \in totals}

\* names in every matching relation, one unparseable contract price
ServicePool ==
    {Service(sConsulting, Num(100000)),
     Service(sConsultingServices, Num(50000)),
     Service(sDesignWeb, Num(100000)),
     Service(sWebDesignHosting, Num(50000)),
     Service(sTravel, Bad)}

ItemPool ==
    {Item(sConsultingLower, Num(100000), Absent),
     Item(sConsultingServices, Num(100000), Absent),
     Item(sWebDesignSpaced, Num(100000), Absent),
     Item(sTravel, Num(50000), Absent),
     Item(sConsulting, Absent, Absent),
     Item(<<>>, Num(100000), Absent),
     NotADict}

Totals == {Absent, Num(150000)}

\* one service name, prices on both sides of the tolerance, of both signs
PriceServicePool ==
    {Service(sConsulting, Num(100000)),
     Service(sConsulting, Num(50000)),
     Service(sConsulting, Num(0)),
     Service(sConsulting, Num(-50000)),
     Service(sConsulting, Bad)}

PriceItemPool ==
    {Item(sConsulting, Num(100009), Absent),
     Item(sConsulting, Num(100010), Absent),
     Item(sConsulting, Num(100020), Absent),
     Item(sConsulting, Num(50010), Absent),
     Item(sConsulting, Num(-50000), Absent),
     Item(sConsulting, Num(0), Absent),
     Item(sConsulting, Num(0), Num(100000)),
     Item(sConsulting, Bad, Num(100010)),
     Item(sConsulting, NoneV, Bad)}

\* two services of one name at different prices, names that share words
TierServicePool ==
    {Service(sConsultingServices, Num(50000)),
     Service(sConsultingServices, Num(100000)),
     Service(sHostingAndWebDesignServices, Num(75000)),
     Service(sDesignWeb, Num(100000)),
     Service(sTravel, Bad)}

\* items that share a substring, several words, one word of two, one word
\* of three, or nothing with the services
TierItemPool ==
    {Item(sConsulting, Num(100000), Absent),
     Item(sWebDesignAndHosting, Num(75000), Absent),
     Item(sDesignLogo, Num(100000), Absent),
     Item(sLogoDesignPrint, Num(100000), Absent),
     Item(sTravel, Num(50000), Absent)}

\* every amount the documents carry, in thousandths
Amounts ==
    {0} \cup {s.unit_price[2] : s \in ServicePool \cup PriceServicePool \cup TierServicePool}
        \cup {i.unit_price[2] : i \in ItemPool \cup PriceItemPool \cup TierItemPool}
        \cup {i.total_price[2] : i \in ItemPool \cup PriceItemPool \cup TierItemPool}

----------------------------------------------------------------------------
(* Reconciliation: DocumentProcessor.compare_invoice_with_contract_async *)

\* price-match tolerance 0.01, in thousandths
Tolerance == 10

\* the same test in exact decimal arithmetic
WithinTolerance_Exact(x, y) == Abs(x - y) <= Tolerance

\* abs(invoice_price - contract_price) <= 0.01, in double arithmetic
WithinTolerance(x, y) == BitsLeq(AbsDiff(x, y), DoubleOfMilli(Tolerance))

\* WithinTolerance on every pair of amounts, computed once
WithinToleranceTable ==
    {<<x, y, WithinTolerance(x, y)>> : x \in Amounts, y \in Amounts}

WithinToleranceMemo(x, y) ==
    IF <<x, y, TRUE>> \in WithinToleranceTable THEN TRUE
    ELSE IF <<x, y, FALSE>> \in WithinToleranceTable THEN FALSE
    ELSE WithinTolerance(x, y)

\* the price test of a matched item
PriceMatch(invoice_price, contract_price) ==
    \/ WithinToleranceMemo(invoice_price, contract_price)
    \/ (invoice_price = 0 /\ contract_price < 0)
    \/ (contract_price = 0 /\ invoice_price < 0)

\* contract_services[name] = {"original_name": ..., "price": ...}: a dict
\* keeps the position of a key it already holds
DictPut(cs, name, original_name, price) ==
    LET entry == [name |-> name, original_name |-> original_name, price |-> price]
    IN IF \E i \in 1..Len(cs) : cs[i].name = name
       THEN [i \in 1..Len(cs) |-> IF cs[i].name = name THEN entry ELSE cs[i]]
       ELSE Append(cs, entry)

\* float(service.get("unit_price", 0.0)) if ... is not None else 0.0
ServicePrice(service) ==
    IF service.unit_price \in {NoneV, Absent} THEN 0 ELSE FloatOf(service.unit_price)

ServicePriceRaises(service) == service.unit_price = Bad

\* the loop that fills contract_services from the first k services
RECURSIVE BuildServices(_, _)
BuildServices(services, k) ==
    IF k = 0 THEN <<>>
    ELSE LET service == services[k]
             before == BuildServices(services, k - 1)
         IN IF service.kind = "dict"
            THEN DictPut(before, NormName(service.service_name),
                         service.service_name, ServicePrice(service))
            ELSE before

\* the first of the indices in S (where the loop breaks), 0 when S is empty
FirstIndex(S) ==
    IF S = {} THEN 0 ELSE CHOOSE i \in S : \A j \in S : i <= j

\* 1. exact match: service_name_norm in contract_services
ExactMatch(name, cs) ==
    FirstIndex({i \in 1..Len(cs) : cs[i].name = name})

\* 2. either name is a substring of the other
SubstringTest(name, contract_name) ==
    IsSubstring(name, contract_name) \/ IsSubstring(contract_name, name)

SubstringMatch(name, cs) ==
    FirstIndex({i \in 1..Len(cs) : SubstringTest(name, cs[i].name)})

\* the word test without its 50% alternative
WordOverlapTest_TwoWords(name, contract_name) ==
    Cardinality(WordSet(name) \cap WordSet(contract_name)) >= 2

\* 3. at least 2 common words, or at least half of the invoice item's words
WordOverlapTest(name, contract_name) ==
    LET service_words == WordSet(name)
        common_words == service_words \cap WordSet(contract_name)
    IN \/ Cardinality(common_words) >= 2
       \/ (Cardinality(common_words) > 0
           /\ 2 * Cardinality(common_words) >= Cardinality(service_words))

WordOverlapMatch(name, cs) ==
    FirstIndex({i \in 1..Len(cs) : WordOverlapTest(name, cs[i].name)})

\* the matcher reduced to its first tier
FindMatch_ExactOnly(name, cs) == ExactMatch(name, cs)

\* one pass over the contract in its order, taking the first service that
\* passes any of the three tests
FindMatch_ContractOrder(name, cs) ==
    FirstIndex({i \in 1..Len(cs) : \/ cs[i].name = name
                                    \/ SubstringTest(name, cs[i].name)
                                    \/ WordOverlapTest(name, cs[i].name)})

\* the index in contract_services of matched_service, 0 when unmatched
FindMatch(name, cs) ==
    IF ExactMatch(name, cs) # 0 THEN ExactMatch(name, cs)
    ELSE IF SubstringMatch(name, cs) # 0 THEN SubstringMatch(name, cs)
    ELSE WordOverlapMatch(name, cs)

\* which tier produced the match (for the log line only)
MatchTier(name, cs) ==
    IF ExactMatch(name, cs) # 0 THEN "exact"
    ELSE IF SubstringMatch(name, cs) # 0 THEN "substring"
    ELSE IF WordOverlapMatch(name, cs) # 0 THEN "words"
    ELSE "none"

\* invoice_price after the unit_price conversion (inner try/except)
UnitPriceOf(item) ==
    IF FloatRaises(item.unit_price) THEN 0 ELSE FloatOf(item.unit_price)

\* the total_price fallback reads float(total_price) outside any inner try
TotalPriceRaises(item) ==
    UnitPriceOf(item) = 0 /\ Truthy(item.total_price) /\ FloatRaises(item.total_price)

\* invoice_price as compared: unit_price, or total_price when unit_price is
\* 0 and total_price is positive
InvoicePrice(item) ==
    IF UnitPriceOf(item) = 0 /\ Truthy(item.total_price) /\ FloatOf(item.total_price) > 0
    THEN FloatOf(item.total_price)
    ELSE UnitPriceOf(item)

\* an item the loop skips: not a dict, or with an empty description
Skipped(item) == item.kind # "dict" \/ item.description = <<>>

----------------------------------------------------------------------------
(* State of one call of compare_invoice_with_contract_async *)

VARIABLES
    contract,                  \* the Contract argument
    invoice_data,              \* the invoice dict argument (shared with the caller)
    pc,                        \* position in the call
    contract_services,         \* normalized name -> {original_name, price}, in insertion order
    idx,                       \* number of invoice items the for loop has consumed
    issues,
    matches,
    all_prices_match,
    price_comparison_details,
    exc,                       \* the exception caught by the outer try
    result,                    \* the returned dict
    item_pc,                   \* position in the construction of one InvoiceItemModel
    item_raw,                  \* the raw item, as the caller holds it
    item_values,               \* the dict of InvoiceItemModel(**raw), which the validators fill
    item_model,                \* the fields validated so far / the model built
    doc_pc,                    \* position in the construction of one ExtractedInvoiceModel
    doc_raw,                   \* the raw invoice payload
    doc_values,                \* the dict of ExtractedInvoiceModel(**raw), which the validators fill
    doc_model,                 \* the normalized document
    doc_first,                 \* the document of the first normalization, when it is fed back
    proc_pc,                   \* position in process_invoice_async after json.loads
    extracted_data,            \* the dict process_invoice_async parsed and repairs
    norm_pc,                   \* number of applications of normalize_hyphens made
    norm_text,                 \* the argument of normalize_hyphens
    norm_out,                  \* what the first application returned
    norm_again,                \* what the application to norm_out returned
    resp_text,                 \* response.text of the vision/LLM collaborator
    gem_pc,                    \* position in _process_gemini_response
    gem_result,                \* what _process_gemini_response returned
    sl_pc,                     \* position in the Streamlit compare_documents
    sl_contract,               \* its Contract argument
    sl_invoice,                \* its ExtractedDocument argument
    sl_idx,                    \* number of invoice items its for loop has consumed
    sl_issues,
    sl_price_matches,
    sl_all_services_in_contract,
    sl_result                  \* the ComparisonResult it returned

compareVars == <<contract, invoice_data, pc, contract_services, idx, issues, matches,
                 all_prices_match, price_comparison_details, exc, result>>

itemVars == <<item_pc, item_raw, item_values, item_model>>

docVars == <<doc_pc, doc_raw, doc_values, doc_model, doc_first>>

procVars == <<proc_pc, extracted_data>>

hyphenVars == <<norm_pc, norm_text, norm_out, norm_again>>

extractVars == <<resp_text, gem_pc, gem_result>>

streamlitVars == <<sl_pc, sl_contract, sl_invoice, sl_idx, sl_issues, sl_price_matches,
                   sl_all_services_in_contract, sl_result>>

restVars == <<hyphenVars, extractVars, streamlitVars>>

vars == <<compareVars, itemVars, docVars, procVars, restVars>>

NoResult == [returned |-> FALSE]
NoException == "none"

\* the same test with "not contract.services" left out
ContractInvalid_NoneOnly(c) == ~c.present

\* not contract or not contract.services
ContractInvalid(c) == ~c.present \/ c.services = <<>>

\* not invoice_data
InvoiceFalsy(inv) ==
    \/ inv.kind = "none"
    \/ (inv.supplier_name = Absent /\ inv.items[1] = "absent" /\ inv.total = Absent)

\* "items" not in invoice_data or not invoice_data.get("items")
ItemsMissing(inv) == inv.items[1] # "list" \/ inv.items[2] = <<>>

FailedMatches ==
    [supplier_name |-> FALSE, prices_match |-> FALSE, all_services_in_contract |-> FALSE]

\* any(matches.values())
AllTrue_Any(m) == \E k \in DOMAIN m : m[k]

\* all(matches.values())
AllTrue(m) == \A k \in DOMAIN m : m[k]

\* del matches[key] when the key is present
DictDel(m, key) == [k \in DOMAIN m \ {key} |-> m[k]]

Items == invoice_data.items[2]

\* lines 716-750: the two validations and the items default
Validate ==
    /\ pc = "start"
    /\ IF ContractInvalid(contract)
       THEN /\ result' = [returned |-> TRUE,
                          contract_id |-> contract.id,
                          invoice_data |-> invoice_data,
                          matches |-> FailedMatches,
                          issues |-> <<[type |-> "contract_invalid",
                                        detail |-> "Contract is empty or has no services"]>>,
                          overall_match |-> FALSE]
            /\ pc' = "done"
            /\ UNCHANGED invoice_data
       ELSE IF InvoiceFalsy(invoice_data)
       THEN /\ result' = [returned |-> TRUE,
                          contract_id |-> contract.id,
                          invoice_data |-> EmptyDict,
                          matches |-> FailedMatches,
                          issues |-> <<[type |-> "invoice_invalid",
                                        detail |-> "Invoice data is empty"]>>,
                          overall_match |-> FALSE]
            /\ pc' = "done"
            /\ UNCHANGED invoice_data
       ELSE /\ invoice_data' = IF ItemsMissing(invoice_data)
                               THEN [invoice_data EXCEPT !.items = <<"list", <<>>>>]
                               ELSE invoice_data
            /\ pc' = "prepare"
            /\ UNCHANGED result
    /\ UNCHANGED <<itemVars, docVars, procVars, restVars>>
    /\ UNCHANGED <<contract, contract_services, idx, issues, matches, all_prices_match,
                   price_comparison_details, exc>>

\* lines 752-780: contract_services, then the initial flags and lists
PrepareContract ==
    /\ pc = "prepare"
    /\ IF \E k \in 1..Len(contract.services) :
              contract.services[k].kind = "dict" /\ ServicePriceRaises(contract.services[k])
       THEN /\ exc' = "ValueError"
            /\ pc' = "except"
            /\ UNCHANGED <<contract_services, issues, matches, all_prices_match,
                           price_comparison_details>>
       ELSE /\ contract_services' = BuildServices(contract.services, Len(contract.services))
            /\ issues' = <<>>
            /\ matches' = [prices_match |-> TRUE, all_services_in_contract |-> TRUE]
            /\ price_comparison_details' = <<>>
            /\ all_prices_match' = TRUE
            /\ pc' = "loop"
            /\ UNCHANGED exc
    /\ UNCHANGED <<itemVars, docVars, procVars, restVars>>
    /\ UNCHANGED <<contract, invoice_data, idx, result>>

\* the entries one matched item adds (lines 857-879, then 881-908)
MatchedDetails(item, contract_price) ==
    <<[service_name |-> item.description, contract_price |-> Num(contract_price),
       invoice_price |-> InvoicePrice(item),
       match |-> PriceMatch(InvoicePrice(item), contract_price)]>>
    \o (IF InvoicePrice(item) = 0 /\ Truthy(invoice_data.total)
        THEN <<[service_name |-> item.description, contract_price |-> Num(contract_price),
                invoice_price |-> 0, match |-> FALSE,
                note |-> "Price not detected in invoice"]>>
        ELSE <<>>)

MatchedIssues(item, contract_price) ==
    (IF ~PriceMatch(InvoicePrice(item), contract_price)
     THEN <<[type |-> "price_mismatch", service_name |-> item.description,
             contract_value |-> contract_price, invoice_value |-> InvoicePrice(item)]>>
     ELSE <<>>)
    \o (IF InvoicePrice(item) = 0 /\ Truthy(invoice_data.total)
        THEN <<[type |-> "price_mismatch", service_name |-> item.description,
                contract_value |-> contract_price, invoice_value |-> 0]>>
        ELSE <<>>)

\* the flag when only the comparison of lines 861-865 lowers it
MatchedPricesOk_ComparisonOnly(item, contract_price) ==
    PriceMatch(InvoicePrice(item), contract_price)

MatchedPricesOk(item, contract_price) ==
    /\ PriceMatch(InvoicePrice(item), contract_price)
    /\ ~(InvoicePrice(item) = 0 /\ Truthy(invoice_data.total))

\* lines 783-908: one iteration of the loop over the invoice items
ProcessItem ==
    /\ pc = "loop"
    /\ idx < Len(Items)
    /\ LET item == Items[idx + 1]
           name == NormName(item.description)
           m == FindMatch(name, contract_services)
       IN IF Skipped(item)
          THEN /\ idx' = idx + 1
               /\ UNCHANGED <<pc, exc, issues, matches, all_prices_match,
                              price_comparison_details>>
          ELSE IF TotalPriceRaises(item)
          THEN /\ exc' = "ValueError"
               /\ pc' = "except"
               /\ UNCHANGED <<idx, issues, matches, all_prices_match,
                              price_comparison_details>>
          ELSE IF m = 0
          THEN /\ matches' = [matches EXCEPT !.all_services_in_contract = FALSE]
               /\ issues' = Append(issues, [type |-> "service_not_in_contract",
                                            service_name |-> item.description])
               /\ price_comparison_details' =
                      Append(price_comparison_details,
                             [service_name |-> item.description, contract_price |-> NoneV,
                              invoice_price |-> InvoicePrice(item), match |-> FALSE])
               /\ all_prices_match' = FALSE
               /\ idx' = idx + 1
               /\ UNCHANGED <<pc, exc>>
          ELSE /\ price_comparison_details' =
                      price_comparison_details
                          \o MatchedDetails(item, contract_services[m].price)
               /\ issues' = issues \o MatchedIssues(item, contract_services[m].price)
               /\ all_prices_match' =
                      (all_prices_match /\ MatchedPricesOk(item, contract_services[m].price))
               /\ idx' = idx + 1
               /\ UNCHANGED <<pc, exc, matches>>
    /\ UNCHANGED <<itemVars, docVars, procVars, restVars>>
    /\ UNCHANGED <<contract, invoice_data, contract_services, result>>

\* lines 910-924: the flags, overall_match and the returned dict
Return ==
    /\ pc = "loop"
    /\ idx = Len(Items)
    /\ LET final == DictDel([matches EXCEPT !.prices_match = all_prices_match],
                            "supplier_name")
       IN /\ matches' = final
          /\ result' = [returned |-> TRUE,
                        contract_id |-> contract.id,
                        invoice_data |-> invoice_data,
                        matches |-> final,
                        issues |-> issues,
                        overall_match |-> AllTrue(final),
                        price_comparison_details |-> price_comparison_details]
    /\ pc' = "done"
    /\ UNCHANGED <<itemVars, docVars, procVars, restVars>>
    /\ UNCHANGED <<contract, invoice_data, contract_services, idx, issues,
                   all_prices_match, price_comparison_details, exc>>

\* the outer except, appending to the issues gathered so far
HandleException_KeepIssues ==
    /\ pc = "except"
    /\ result' = [returned |-> TRUE,
                  contract_id |-> contract.id,
                  invoice_data |-> IF InvoiceFalsy(invoice_data) THEN EmptyDict
                                   ELSE invoice_data,
                  matches |-> FailedMatches,
                  issues |-> Append(issues, [type |-> "comparison_error", detail |-> exc]),
                  overall_match |-> FALSE]
    /\ pc' = "done"
    /\ UNCHANGED <<itemVars, docVars, procVars, restVars>>
    /\ UNCHANGED <<contract, invoice_data, contract_services, idx, issues, matches,
                   all_prices_match, price_comparison_details, exc>>

\* lines 926-939: the outer except
HandleException ==
    /\ pc = "except"
    /\ result' = [returned |-> TRUE,
                  contract_id |-> contract.id,
                  invoice_data |-> IF InvoiceFalsy(invoice_data) THEN EmptyDict
                                   ELSE invoice_data,
                  matches |-> FailedMatches,
                  issues |-> <<[type |-> "comparison_error", detail |-> exc]>>,
                  overall_match |-> FALSE]
    /\ pc' = "done"
    /\ UNCHANGED <<itemVars, docVars, procVars, restVars>>
    /\ UNCHANGED <<contract, invoice_data, contract_services, idx, issues, matches,
                   all_prices_match, price_comparison_details, exc>>

Next == Validate \/ PrepareContract \/ ProcessItem \/ Return \/ HandleException

----------------------------------------------------------------------------
(* Line-item normalizer: InvoiceItemModel (pydantic).  Building a model    *)
(* runs the pre root validator on the raw dict, then the field validators  *)
(* in field order, then the post root validator.  Quantities and prices    *)
(* are in thousandths; the quantities drawn are powers of two, so that the *)
(* double product q * up is the exact product.                             *)

DefaultQuantity == 1000
DefaultUnitPrice == 0
UnknownItem == <<"U", "n", "k", "n", "o", "w", "n", " ", "I", "t", "e", "m">>

DescAbsent == <<"absent", <<>>>>
DescNone == <<"none", <<>>>>
DescStr(s) == <<"str", s>>

\* q * up on thousandths
Times(q, up) == (q * up) \div 1000

\* InvoiceItemModel.ensure_float
ensure_float(value) ==
    IF value = NoneV THEN 0
    ELSE IF FloatRaises(value) THEN 0
    ELSE FloatOf(value)

\* the total_price the pre root validator computes when total_price is None
FilledTotalPrice(values) ==
    LET quantity == IF values.quantity = Absent THEN Num(DefaultQuantity)
                    ELSE values.quantity
        unit_price == IF values.unit_price = Absent THEN Num(DefaultUnitPrice)
                      ELSE values.unit_price
        q == IF quantity # NoneV THEN FloatOf(quantity) ELSE DefaultQuantity
        up == IF unit_price # NoneV THEN FloatOf(unit_price) ELSE DefaultUnitPrice
    IN IF (quantity # NoneV /\ FloatRaises(quantity))
          \/ (unit_price # NoneV /\ FloatRaises(unit_price))
       THEN 0
       ELSE Times(q, up)

NoModel == [built |-> FALSE]
NoValues == [description |-> DescAbsent, quantity |-> Absent, unit_price |-> Absent,
             total_price |-> Absent]

\* @root_validator(pre=True) fill_total_price_from_unit_price_and_quantity
fill_total_price_from_unit_price_and_quantity ==
    /\ item_pc = "pre_root"
    /\ item_values' =
           IF item_values.total_price \in {Absent, NoneV}
           THEN [item_values EXCEPT !.total_price = Num(FilledTotalPrice(item_values))]
           ELSE item_values
    /\ item_pc' = "fields"
    /\ UNCHANGED <<item_raw, item_model>>
    /\ UNCHANGED <<compareVars, docVars, procVars, restVars>>

\* the field validation: description: str, quantity and unit_price through
\* ensure_float (always=True: the default goes through it too),
\* total_price: Optional[float]
ValidateFields ==
    /\ item_pc = "fields"
    /\ IF item_values.description = DescNone \/ item_values.total_price = Bad
       THEN /\ item_model' = [built |-> FALSE, error |-> "ValidationError"]
            /\ item_pc' = "raised"
       ELSE /\ item_model' =
                   [built |-> FALSE,
                    description |-> IF item_values.description = DescAbsent
                                    THEN UnknownItem
                                    ELSE item_values.description[2],
                    quantity |-> ensure_float(IF item_values.quantity = Absent
                                              THEN Num(DefaultQuantity)
                                              ELSE item_values.quantity),
                    unit_price |-> ensure_float(IF item_values.unit_price = Absent
                                                THEN Num(DefaultUnitPrice)
                                                ELSE item_values.unit_price),
                    total_price |-> IF item_values.total_price \in {Absent, NoneV}
                                    THEN NoneV
                                    ELSE Num(FloatOf(item_values.total_price))]
            /\ item_pc' = "post_root"
    /\ UNCHANGED <<item_raw, item_values>>
    /\ UNCHANGED <<compareVars, docVars, procVars, restVars>>

\* @root_validator(skip_on_failure=True) calculate_total_price_if_still_none
calculate_total_price_if_still_none ==
    /\ item_pc = "post_root"
    /\ item_model' =
           [item_model EXCEPT
               !.built = TRUE,
               !.total_price = IF item_model.total_price = NoneV
                               THEN Num(Times(item_model.quantity, item_model.unit_price))
                               ELSE item_model.total_price]
    /\ item_pc' = "done"
    /\ UNCHANGED <<item_raw, item_values>>
    /\ UNCHANGED <<compareVars, docVars, procVars, restVars>>

\* InvoiceItemModel(**raw) as one function of the raw dict: the values
\* after the pre root validator, the field validation, the post root
\* validator; [error |-> TRUE] when a ValidationError is raised
ItemAfterPreRoot(raw) ==
    IF raw.total_price \in {Absent, NoneV}
    THEN [raw EXCEPT !.total_price = Num(FilledTotalPrice(raw))]
    ELSE raw

ItemInvalid(values) == values.description = DescNone \/ values.total_price = Bad

ItemFields(values) ==
    [built |-> TRUE,
     description |-> IF values.description = DescAbsent THEN UnknownItem
                     ELSE values.description[2],
     quantity |-> ensure_float(IF values.quantity = Absent THEN Num(DefaultQuantity)
                               ELSE values.quantity),
     unit_price |-> ensure_float(IF values.unit_price = Absent THEN Num(DefaultUnitPrice)
                                 ELSE values.unit_price),
     total_price |-> IF values.total_price \in {Absent, NoneV} THEN NoneV
                     ELSE Num(FloatOf(values.total_price))]

ItemAfterPostRoot(model) ==
    IF model.total_price = NoneV
    THEN [model EXCEPT !.total_price = Num(Times(model.quantity, model.unit_price))]
    ELSE model

ItemError == [error |-> TRUE]

BuildItem(raw) ==
    IF ItemInvalid(ItemAfterPreRoot(raw)) THEN ItemError
    ELSE ItemAfterPostRoot(ItemFields(ItemAfterPreRoot(raw)))

NextItem ==
    \/ fill_total_price_from_unit_price_and_quantity
    \/ ValidateFields
    \/ calculate_total_price_if_still_none

\* the raw items InvoiceItemModel is built from
RawQuantities == {Absent, NoneV, Bad, Num(0), Num(500), Num(2000), NumStr(2000)}
RawUnitPrices == {Absent, NoneV, Bad, Num(0), Num(5000), Num(-50000), NumStr(100010)}
RawTotalPrices == {Absent, NoneV, Bad, Num(0), Num(7000), NumStr(7000)}
\* 'A - B' and the empty string
sSpacedHyphen == <<"A", " ", "-", " ", "B">>
sEmpty == <<>>

RawDescriptions ==
    {DescAbsent, DescNone, DescStr(sConsulting), DescStr(sSpacedHyphen), DescStr(sEmpty)}

RawItems ==
    [description : RawDescriptions, quantity : RawQuantities,
     unit_price : RawUnitPrices, total_price : RawTotalPrices]

\* no document is being normalized
NoDoc == [built |-> FALSE]
NoPayload == [kind |-> "none"]

\* normalize_hyphens is not being applied
HyphenIdle ==
    /\ norm_pc = "idle"
    /\ norm_text = NoneV
    /\ norm_out = NoneV
    /\ norm_again = NoneV

\* no response of the collaborator is being processed
ExtractIdle ==
    /\ resp_text = <<>>
    /\ gem_pc = "idle"
    /\ gem_result = NoPayload

\* no Streamlit comparison is in progress
StreamlitIdle ==
    /\ sl_pc = "idle"
    /\ sl_contract = NoPayload
    /\ sl_invoice = NoPayload
    /\ sl_idx = 0
    /\ sl_issues = <<>>
    /\ sl_price_matches = TRUE
    /\ sl_all_services_in_contract = TRUE
    /\ sl_result = NoResult

DocIdle ==
    /\ doc_pc = "idle"
    /\ doc_raw = NoPayload
    /\ doc_values = NoPayload
    /\ doc_model = NoDoc
    /\ doc_first = NoDoc

ProcIdle ==
    /\ proc_pc = "idle"
    /\ extracted_data = NoPayload

----------------------------------------------------------------------------
(* Document normalizer: ExtractedInvoiceModel (pydantic).  A header string *)
(* is <<tag, s>> with s a TLA+ string; a date value is <<tag, d>> with d a *)
(* day written %Y-%m-%d.  raw_text, which no validator touches, is left    *)
(* out.                                                                    *)

TxtAbsent == <<"absent", "">>
TxtNone == <<"none", "">>
Txt(s) == <<"str", s>>

DateAbsent == <<"absent", "">>
DateNone == <<"none", "">>
\* a string in the format %Y-%m-%d
DateIso(d) == <<"iso", d>>
\* a string strptime rejects
DateBadStr == <<"badstr", "">>
DateObj(d) == <<"date", d>>
DateTimeObj(d) == <<"datetime", d>>

\* date.today()
Today == "today"
\* f"INV-{datetime.now().strftime('%Y%m%d%H%M%S')}"
GeneratedInvoiceNumber == "INV-now"
UnknownSupplier == "Unknown Supplier"

\* an element of items that is not an object (a bare string)
NotAnObject ==
    [description |-> <<"notdict", <<>>>>, quantity |-> Absent, unit_price |-> Absent,
     total_price |-> Absent]

\* ExtractedInvoiceModel.parse_date
parse_date(value) ==
    CASE value[1] = "iso" -> DateObj(value[2])
      [] value[1] = "badstr" -> DateNone
      [] value[1] = "datetime" -> DateObj(value[2])
      [] value[1] = "date" -> value
      [] OTHER -> DateNone

\* ExtractedInvoiceModel.ensure_float_optional
ensure_float_optional(value) ==
    IF value = NoneV THEN 0
    ELSE IF FloatRaises(value) THEN 0
    ELSE FloatOf(value)

RECURSIVE SumTotalPrices(_)
\* sum(item.total_price for item in items if item.total_price is not None)
SumTotalPrices(items) ==
    IF items = <<>> THEN 0
    ELSE (IF Head(items).total_price = NoneV THEN 0 ELSE Head(items).total_price[2])
         + SumTotalPrices(Tail(items))

\* @root_validator(pre=True) handle_missing_fields_from_gemini
handle_missing_fields_from_gemini ==
    /\ doc_pc = "pre_root"
    /\ doc_values' =
           [doc_values EXCEPT
               !.invoice_number = IF @ \in {TxtAbsent, TxtNone}
                                  THEN Txt(GeneratedInvoiceNumber) ELSE @,
               !.supplier_name = IF @ \in {TxtAbsent, TxtNone}
                                 THEN Txt(UnknownSupplier) ELSE @,
               !.issue_date = IF @ \in {DateAbsent, DateNone} THEN DateIso(Today) ELSE @,
               !.items = IF @[1] # "list" THEN <<"list", <<>>>> ELSE @]
    /\ doc_pc' = "fields"
    /\ UNCHANGED <<doc_raw, doc_model, doc_first>>
    /\ UNCHANGED <<compareVars, itemVars, procVars, restVars>>

\* the items field: List[InvoiceItemModel]
BuildItems(elements) ==
    [i \in 1..Len(elements) |->
        IF elements[i] = NotAnObject THEN ItemError ELSE BuildItem(elements[i])]

\* the field validation, in field order
ValidateDocFields ==
    /\ doc_pc = "fields"
    /\ LET items == BuildItems(doc_values.items[2])
       IN IF \E i \in 1..Len(items) : items[i] = ItemError
          THEN /\ doc_model' = [built |-> FALSE, error |-> "ValidationError"]
               /\ doc_pc' = "raised"
          ELSE /\ doc_model' =
                      [built |-> FALSE,
                       invoice_number |-> doc_values.invoice_number,
                       supplier_name |-> doc_values.supplier_name,
                       issue_date |-> parse_date(doc_values.issue_date),
                       due_date |-> IF doc_values.due_date = DateAbsent THEN DateNone
                                    ELSE parse_date(doc_values.due_date),
                       items |-> items,
                       subtotal |-> ensure_float_optional(
                                        IF doc_values.subtotal = Absent THEN Num(0)
                                        ELSE doc_values.subtotal),
                       tax |-> ensure_float_optional(
                                   IF doc_values.tax = Absent THEN Num(0)
                                   ELSE doc_values.tax),
                       total |-> ensure_float_optional(
                                     IF doc_values.total = Absent THEN Num(0)
                                     ELSE doc_values.total)]
               /\ doc_pc' = "post_root"
    /\ UNCHANGED <<doc_raw, doc_values, doc_first>>
    /\ UNCHANGED <<compareVars, itemVars, procVars, restVars>>

\* the item made with its total_price only
SynthesizedItem_TotalOnly(total) ==
    BuildItem([description |-> DescStr(UnknownItem), quantity |-> Num(1000),
               unit_price |-> Absent, total_price |-> Num(total)])

\* the one item made from the document total
SynthesizedItem(total) ==
    BuildItem([description |-> DescStr(UnknownItem), quantity |-> Num(1000),
               unit_price |-> Num(total), total_price |-> Num(total)])

\* the same validator without its test that the stated total is zero
calculate_total_from_items_always ==
    /\ doc_pc = "post_root"
    /\ LET calculated_total == SumTotalPrices(doc_model.items)
           total == IF doc_model.items # <<>> /\ calculated_total > 0
                    THEN calculated_total
                    ELSE doc_model.total
           items == IF doc_model.items = <<>> /\ total > 0
                    THEN <<SynthesizedItem(total)>>
                    ELSE doc_model.items
       IN doc_model' = [doc_model EXCEPT !.built = TRUE, !.total = total, !.items = items]
    /\ doc_pc' = "done"
    /\ UNCHANGED <<doc_raw, doc_values, doc_first>>
    /\ UNCHANGED <<compareVars, itemVars, procVars, restVars>>

\* @root_validator(skip_on_failure=True) calculate_total_from_items_if_zero
calculate_total_from_items_if_zero ==
    /\ doc_pc = "post_root"
    /\ LET calculated_total == SumTotalPrices(doc_model.items)
           total == IF doc_model.total = 0 /\ doc_model.items # <<>>
                       /\ calculated_total > 0
                    THEN calculated_total
                    ELSE doc_model.total
           items == IF doc_model.items = <<>> /\ total > 0
                    THEN <<SynthesizedItem(total)>>
                    ELSE doc_model.items
       IN doc_model' = [doc_model EXCEPT !.built = TRUE, !.total = total, !.items = items]
    /\ doc_pc' = "done"
    /\ UNCHANGED <<doc_raw, doc_values, doc_first>>
    /\ UNCHANGED <<compareVars, itemVars, procVars, restVars>>

\* item.dict()
ItemToDict(item) ==
    [description |-> DescStr(item.description), quantity |-> Num(item.quantity),
     unit_price |-> Num(item.unit_price), total_price |-> item.total_price]

\* document.dict(): the fields of the normalized document as a payload
DocToDict(doc) ==
    [invoice_number |-> doc.invoice_number,
     supplier_name |-> doc.supplier_name,
     issue_date |-> doc.issue_date,
     due_date |-> doc.due_date,
     items |-> <<"list", [i \in 1..Len(doc.items) |-> ItemToDict(doc.items[i])]>>,
     subtotal |-> Num(doc.subtotal),
     tax |-> Num(doc.tax),
     total |-> Num(doc.total)]

\* ExtractedInvoiceModel(**document.dict()): the normalized document is
\* normalized again
Renormalize ==
    /\ doc_pc = "done"
    /\ doc_first = NoDoc
    /\ doc_first' = doc_model
    /\ doc_values' = DocToDict(doc_model)
    /\ doc_model' = NoDoc
    /\ doc_pc' = "pre_root"
    /\ UNCHANGED doc_raw
    /\ UNCHANGED <<compareVars, itemVars, procVars, restVars>>

NextDoc ==
    \/ handle_missing_fields_from_gemini
    \/ ValidateDocFields
    \/ calculate_total_from_items_if_zero
    \/ Renormalize

MaxDocItems == 2

\* raw items of a payload: well-formed ones, one with a null quantity, one
\* with no numbers, one with a null description, one with an unparseable
\* total_price, one that is no object
DocItemPool ==
    {[description |-> DescStr(sConsulting), quantity |-> Num(2000),
      unit_price |-> Num(5000), total_price |-> Absent],
     [description |-> DescStr(sTravel), quantity |-> Num(1000),
      unit_price |-> Num(7000), total_price |-> Num(7000)],
     [description |-> DescAbsent, quantity |-> NoneV,
      unit_price |-> Num(5000), total_price |-> NoneV],
     [description |-> DescStr(sTravel), quantity |-> Absent,
      unit_price |-> Absent, total_price |-> Absent],
     [description |-> DescNone, quantity |-> Num(1000),
      unit_price |-> Num(5000), total_price |-> Absent],
     [description |-> DescStr(sConsulting), quantity |-> Num(1000),
      unit_price |-> Num(5000), total_price |-> Bad],
     NotAnObject}

DocItemLists ==
    {<<"absent", <<>>>>, <<"none", <<>>>>}
        \cup {<<"list", s>> : s \in SeqsUpTo(DocItemPool, MaxDocItems)}

DocTotals == {Absent, NoneV, Bad, Num(0), Num(500000), NumStr(500000), Num(-5000)}

\* payloads that vary the items and the total
ItemPayloads ==
    [invoice_number : {Txt("INV-1")}, supplier_name : {Txt("ACME")},
     issue_date : {DateIso("2024-01-15")}, due_date : {DateAbsent},
     items : DocItemLists, subtotal : {Absent}, tax : {Absent}, total : DocTotals]

\* payloads that vary the header fields
HeaderPayloads ==
    [invoice_number : {TxtAbsent, TxtNone, Txt("INV-1")},
     supplier_name : {TxtAbsent, TxtNone, Txt("ACME"), Txt("")},
     issue_date : {DateAbsent, DateNone, DateIso("2024-01-15"), DateBadStr,
                   DateObj("2024-01-15")},
     due_date : {DateAbsent, DateNone, DateIso("2024-02-15"), DateBadStr},
     items : {<<"list", <<>>>>},
     subtotal : {Absent, Bad, Num(400000)}, tax : {Absent, NoneV},
     total : {Num(0), Num(500000)}]

DocPayloads == ItemPayloads \cup HeaderPayloads

----------------------------------------------------------------------------
(* DocumentProcessor.process_invoice_async, from the dict json.loads gave  *)
(* (lines 1053-1160).  The payload has the fields of the document payload; *)
(* JSON holds no date objects, so its dates are strings, null or absent.   *)

\* datetime.now()
Now == "now"
Unknown == "Unknown"

\* f"Item {i+1}" for the i-th item, i counted from 1 here
ItemLabel(i) == <<"I", "t", "e", "m", " ", <<"1", "2", "3", "4", "5", "6", "7", "8", "9">>[i]>>

\* total_price / quantity on thousandths (the quantities drawn divide exactly)
Quotient(total_price, quantity) == (total_price * 1000) \div quantity

\* isinstance(value, (int, float))
IsNumber(value) == value[1] = "num"

\* lines 1053-1060: the date strings become datetimes; strptime raises on a
\* string in another format
ConvertDates ==
    /\ proc_pc = "dates"
    /\ IF DateBadStr \in {extracted_data.issue_date, extracted_data.due_date}
       THEN /\ proc_pc' = "raised"
            /\ UNCHANGED extracted_data
       ELSE /\ extracted_data' =
                   [extracted_data EXCEPT
                       !.issue_date = IF @[1] = "iso" THEN DateTimeObj(@[2])
                                      ELSE DateTimeObj(Now),
                       !.due_date = IF @[1] = "iso" THEN DateTimeObj(@[2]) ELSE @]
            /\ proc_pc' = "fields"
    /\ UNCHANGED <<compareVars, itemVars, docVars, restVars>>

\* lines 1081-1133: one item of the list, repaired in place
RepairedItem(item, i) ==
    IF item = NotAnObject
    THEN [description |-> ItemLabel(i), quantity |-> 1000, unit_price |-> 0,
          total_price |-> 0]
    ELSE LET quantity == IF item.quantity \in {Absent, NoneV} \/ FloatRaises(item.quantity)
                         THEN 1000 ELSE FloatOf(item.quantity)
             converted == IF item.unit_price \in {Absent, NoneV}
                             \/ FloatRaises(item.unit_price)
                          THEN 0 ELSE FloatOf(item.unit_price)
             has_total == /\ item.total_price # Absent
                          /\ Truthy(item.total_price)
                          /\ ~FloatRaises(item.total_price)
                          /\ FloatOf(item.total_price) # 0
             unit_price == IF converted = 0 /\ has_total
                           THEN (IF quantity <= 1000 THEN FloatOf(item.total_price)
                                 ELSE Quotient(FloatOf(item.total_price), quantity))
                           ELSE converted
         IN [description |-> IF item.description \in {DescAbsent, DescNone}
                             THEN ItemLabel(i) ELSE item.description[2],
             quantity |-> quantity,
             unit_price |-> unit_price,
             total_price |-> IF item.total_price \in {Absent, NoneV}
                                \/ FloatRaises(item.total_price)
                             THEN Times(quantity, unit_price)
                             ELSE FloatOf(item.total_price)]

\* lines 1062-1133: required fields, numeric header fields, then the items;
\* iterating items = null raises TypeError
RepairFields ==
    /\ proc_pc = "fields"
    /\ IF extracted_data.items[1] = "none"
       THEN /\ proc_pc' = "raised"
            /\ extracted_data' =
                   [extracted_data EXCEPT
                       !.invoice_number = IF @ = TxtAbsent THEN Txt(Unknown) ELSE @,
                       !.supplier_name = IF @ = TxtAbsent THEN Txt(Unknown) ELSE @,
                       !.total = IF IsNumber(@) THEN @ ELSE Num(0),
                       !.subtotal = IF IsNumber(@) THEN @ ELSE Num(0),
                       !.tax = IF IsNumber(@) THEN @ ELSE Num(0)]
       ELSE /\ proc_pc' = "default_item"
            /\ extracted_data' =
                   [extracted_data EXCEPT
                       !.invoice_number = IF @ = TxtAbsent THEN Txt(Unknown) ELSE @,
                       !.supplier_name = IF @ = TxtAbsent THEN Txt(Unknown) ELSE @,
                       !.total = IF IsNumber(@) THEN @ ELSE Num(0),
                       !.subtotal = IF IsNumber(@) THEN @ ELSE Num(0),
                       !.tax = IF IsNumber(@) THEN @ ELSE Num(0),
                       !.items = <<"list", [i \in 1..Len(@[2]) |-> RepairedItem(@[2][i], i)]>>]
    /\ UNCHANGED <<compareVars, itemVars, docVars, restVars>>

\* lines 1135-1160: the default item, the fields that are still None, return
DefaultItemAndReturn ==
    /\ proc_pc = "default_item"
    /\ extracted_data' =
           [extracted_data EXCEPT
               !.items = IF @[2] = <<>>
                         THEN <<"list", <<[description |-> UnknownItem, quantity |-> 1000,
                                           unit_price |-> extracted_data.total[2],
                                           total_price |-> extracted_data.total[2]]>>>>
                         ELSE @,
               !.invoice_number = IF @ = TxtNone THEN Txt(GeneratedInvoiceNumber) ELSE @,
               !.supplier_name = IF @ = TxtNone THEN Txt(UnknownSupplier) ELSE @]
    /\ proc_pc' = "done"
    /\ UNCHANGED <<compareVars, itemVars, docVars, restVars>>

NextProc == ConvertDates \/ RepairFields \/ DefaultItemAndReturn

\* raw items of a JSON payload
ProcItemPool ==
    {[description |-> DescStr(sConsulting), quantity |-> Num(2000),
      unit_price |-> Num(5000), total_price |-> Absent],
     [description |-> DescStr(sTravel), quantity |-> Num(2000),
      unit_price |-> Num(0), total_price |-> Num(7000)],
     [description |-> DescNone, quantity |-> NoneV,
      unit_price |-> Bad, total_price |-> Bad],
     NotAnObject}

\* JSON payloads: the items and the total vary, then the header fields
ProcPayloads ==
    [invoice_number : {Txt("INV-1")}, supplier_name : {Txt("ACME")},
     issue_date : {DateIso("2024-01-15")}, due_date : {DateAbsent},
     items : {<<"absent", <<>>>>, <<"none", <<>>>>}
                 \cup {<<"list", s>> : s \in SeqsUpTo(ProcItemPool, MaxDocItems)},
     subtotal : {Absent}, tax : {Absent},
     total : {Absent, NoneV, Num(0), Num(500000), NumStr(500000)}]
    \cup
    [invoice_number : {TxtAbsent, TxtNone}, supplier_name : {TxtAbsent, TxtNone},
     issue_date : {DateAbsent, DateNone, DateBadStr},
     due_date : {DateNone, DateIso("2024-02-15"), DateBadStr},
     items : {<<"list", <<>>>>}, subtotal : {Bad, Num(400000)}, tax : {NoneV},
     total : {Num(0)}]

----------------------------------------------------------------------------
(* utils/hyphen_normalizer.normalize_hyphens *)

\* what \s and str.strip() take for whitespace, among the characters drawn
Whitespace == {" ", "\t", "\n"}

\* a str argument, and its characters
Text(chars) == <<"text", chars>>
IsText(value) == value[1] = "text"

\* the length of the run of whitespace a string starts with
LeadingWhitespace(s) ==
    IF \A i \in 1..Len(s) : s[i] \in Whitespace THEN Len(s)
    ELSE (CHOOSE i \in 1..Len(s) :
              s[i] \notin Whitespace /\ \A j \in 1..(i - 1) : s[j] \in Whitespace) - 1

\* the length of the run of whitespace a string ends with
TrailingWhitespace(s) ==
    IF \A i \in 1..Len(s) : s[i] \in Whitespace THEN Len(s)
    ELSE Len(s) - (CHOOSE i \in 1..Len(s) :
                       s[i] \notin Whitespace /\ \A j \in (i + 1)..Len(s) : s[j] \in Whitespace)

\* str.strip()
strip(s) ==
    IF LeadingWhitespace(s) = Len(s) THEN <<>>
    ELSE SubSeq(s, LeadingWhitespace(s) + 1, Len(s) - TrailingWhitespace(s))

RECURSIVE SubHyphens_LeadingOnly(_)
\* the substitution with the pattern \s*- , which leaves what follows a hyphen
SubHyphens_LeadingOnly(text) ==
    IF text = <<>> THEN <<>>
    ELSE LET k == LeadingWhitespace(text)
         IN IF k < Len(text) /\ text[k + 1] = "-"
            THEN <<"-">> \o SubHyphens_LeadingOnly(SubSeq(text, k + 2, Len(text)))
            ELSE <<Head(text)>> \o SubHyphens_LeadingOnly(Tail(text))

RECURSIVE SubHyphens(_)
\* re.sub(r'\s*-\s*', '-', text): scanning from the left, a greedy run of
\* whitespace followed by a hyphen and the whitespace after it becomes "-"
SubHyphens(text) ==
    IF text = <<>> THEN <<>>
    ELSE LET k == LeadingWhitespace(text)
         IN IF k < Len(text) /\ text[k + 1] = "-"
            THEN LET rest == SubSeq(text, k + 2, Len(text))
                 IN <<"-">> \o SubHyphens(SubSeq(rest, LeadingWhitespace(rest) + 1, Len(rest)))
            ELSE <<Head(text)>> \o SubHyphens(Tail(text))

RECURSIVE CollapseSpaces(_)
\* re.sub(r' +', ' ', text): every run of spaces becomes one space
CollapseSpaces(text) ==
    IF text = <<>> THEN <<>>
    ELSE IF Head(text) = " " /\ Len(text) > 1 /\ text[2] = " "
         THEN CollapseSpaces(Tail(text))
         ELSE <<Head(text)>> \o CollapseSpaces(Tail(text))

normalize_hyphens(text) ==
    IF ~IsText(text) THEN text
    ELSE Text(strip(CollapseSpaces(SubHyphens(text[2]))))

\* one call of normalize_hyphens, then one more on what it returned
ApplyOnce ==
    /\ norm_pc = "start"
    /\ norm_out' = normalize_hyphens(norm_text)
    /\ norm_pc' = "once"
    /\ UNCHANGED <<norm_text, norm_again>>
    /\ UNCHANGED <<compareVars, itemVars, docVars, procVars, extractVars, streamlitVars>>

ApplyAgain ==
    /\ norm_pc = "once"
    /\ norm_again' = normalize_hyphens(norm_out)
    /\ norm_pc' = "twice"
    /\ UNCHANGED <<norm_text, norm_out>>
    /\ UNCHANGED <<compareVars, itemVars, docVars, procVars, extractVars, streamlitVars>>

NextHyphen == ApplyOnce \/ ApplyAgain

MaxTextLen == 5

\* the arguments drawn: every string of a few characters, and two non-strings
HyphenAlphabet == {"A", "B", " ", "-", "\t"}
HyphenInputs ==
    {Text(s) : s \in SeqsUpTo(HyphenAlphabet, MaxTextLen)} \cup {NoneV, Num(5000)}

----------------------------------------------------------------------------
(* The text of the collaborator's response: _process_gemini_response with  *)
(* _extract_from_text, and the parse step of process_invoice_async.  A     *)
(* text is the tuple of its characters.                                    *)

\* s[i:] for a 0-based i
From(s, i) == SubSeq(s, i + 1, Len(s))

\* str.find(sub): the 0-based index of the first occurrence, -1 if none
find(s, sub) ==
    IF IsSubstring(sub, s)
    THEN (CHOOSE i \in 0..(Len(s) - Len(sub)) :
              /\ SubSeq(s, i + 1, i + Len(sub)) = sub
              /\ \A j \in 0..(i - 1) : SubSeq(s, j + 1, j + Len(sub)) # sub)
    ELSE -1

\* str.rfind(sub): the 0-based index of the last occurrence, -1 if none
rfind(s, sub) ==
    IF IsSubstring(sub, s)
    THEN (CHOOSE i \in 0..(Len(s) - Len(sub)) :
              /\ SubSeq(s, i + 1, i + Len(sub)) = sub
              /\ \A j \in (i + 1)..(Len(s) - Len(sub)) : SubSeq(s, j + 1, j + Len(sub)) # sub)
    ELSE -1

RECURSIVE SplitOn(_, _)
\* str.split(sep): the pieces between the occurrences of sep, empty ones kept
SplitOn(s, sep) ==
    IF find(s, sep) = -1 THEN <<s>>
    ELSE <<SubSeq(s, 1, find(s, sep))>> \o SplitOn(From(s, find(s, sep) + Len(sep)), sep)

DigitValue ==
    ("0" :> 0) @@ ("1" :> 1) @@ ("2" :> 2) @@ ("3" :> 3) @@ ("4" :> 4) @@
    ("5" :> 5) @@ ("6" :> 6) @@ ("7" :> 7) @@ ("8" :> 8) @@ ("9" :> 9)

IsDigit(c) == c \in DOMAIN DigitValue

\* the length of the run of digits a string starts with
LeadingDigits(s) ==
    IF \A i \in 1..Len(s) : IsDigit(s[i]) THEN Len(s)
    ELSE (CHOOSE i \in 1..Len(s) : ~IsDigit(s[i]) /\ \A j \in 1..(i - 1) : IsDigit(s[j])) - 1

\* the length of the match of \d+\.\d+|\d+ at the start of s, 0 if none
NumberPrefix(s) ==
    LET whole == LeadingDigits(s)
        fraction == IF whole < Len(s) /\ s[whole + 1] = "."
                    THEN LeadingDigits(From(s, whole + 1)) ELSE 0
    IN IF whole = 0 THEN 0
       ELSE IF fraction > 0 THEN whole + 1 + fraction
       ELSE whole

RECURSIVE findall_numbers(_)
\* re.findall(r'\d+\.\d+|\d+', line)
findall_numbers(line) ==
    IF line = <<>> THEN <<>>
    ELSE IF NumberPrefix(line) = 0 THEN findall_numbers(Tail(line))
    ELSE <<SubSeq(line, 1, NumberPrefix(line))>> \o findall_numbers(From(line, NumberPrefix(line)))

RECURSIVE DigitsValue(_)
\* the natural number a string of digits writes
DigitsValue(digits) ==
    IF digits = <<>> THEN 0
    ELSE DigitsValue(SubSeq(digits, 1, Len(digits) - 1)) * 10 + DigitValue[digits[Len(digits)]]

\* float(number) for a match of the pattern, in thousandths (the numbers
\* drawn have at most three decimals)
FloatOfDecimal(number) ==
    LET whole == LeadingDigits(number)
        decimals == From(number, whole + 1)
    IN DigitsValue(SubSeq(number, 1, whole)) * 1000
       + (IF whole = Len(number) THEN 0
          ELSE DigitsValue(decimals \o [i \in 1..(3 - Len(decimals)) |-> "0"]))

sInvoiceWord == <<"i", "n", "v", "o", "i", "c", "e">>
sTotalWord == <<"t", "o", "t", "a", "l">>
sUnknown == <<"U", "n", "k", "n", "o", "w", "n">>
\* the backquote character, which a string of this language cannot hold
Backquote == "backquote"
sFence == <<Backquote, Backquote, Backquote>>
sJsonFence == sFence \o <<"j", "s", "o", "n">>
sEmptyObject == <<"{", "}">>

\* json.loads: of the texts drawn, "{}" alone is a JSON document
JsonLoadsRaises(s) == s # sEmptyObject

\* the dict json.loads gives for "{}", as a payload: no key is present
EmptyObjectPayload ==
    [invoice_number |-> TxtAbsent, supplier_name |-> TxtAbsent,
     issue_date |-> DateAbsent, due_date |-> DateAbsent,
     items |-> <<"absent", <<>>>>, subtotal |-> Absent, tax |-> Absent,
     total |-> Absent]

\* lines 526-536: the result _extract_from_text starts from
DefaultDocument(text) ==
    [kind |-> "document", invoice_number |-> sUnknown, supplier_name |-> sUnknown,
     issue_date |-> Today, due_date |-> NoneV, items |-> <<>>, subtotal |-> 0,
     tax |-> 0, total |-> 0, raw_text |-> text]

\* a line of lines 541-545 / 552-559 applies
NamesInvoice(line) == IsSubstring(sInvoiceWord, lower(line)) /\ IsSubstring(<<"#">>, line)
NamesTotal(line) ==
    IsSubstring(sTotalWord, lower(line)) /\ findall_numbers(line) # <<>>

\* the last element of a non-empty tuple
Last(s) == s[Len(s)]

\* the positions of the lines a test accepts, and the last of them
LastWhere(lines, accepted) == CHOOSE i \in accepted : \A j \in accepted : j <= i

\* DocumentProcessor._extract_from_text: each accepting line overwrites the
\* field, so the last one stays
extract_from_text(text) ==
    LET lines == SplitOn(text, <<"\n">>)
        invoice_lines == {i \in 1..Len(lines) : NamesInvoice(lines[i])}
        total_lines == {i \in 1..Len(lines) : NamesTotal(lines[i])}
    IN [DefaultDocument(text) EXCEPT
           !.invoice_number =
               IF invoice_lines = {} THEN @
               ELSE strip(SplitOn(lines[LastWhere(lines, invoice_lines)], <<"#">>)[2]),
           !.total =
               IF total_lines = {} THEN @
               ELSE FloatOfDecimal(Last(findall_numbers(lines[LastWhere(lines, total_lines)])))]

\* DocumentProcessor._process_gemini_response; _normalize_extracted_data
\* returns a dict without invoice_number and total as it is
process_gemini_response ==
    /\ gem_pc = "start"
    /\ LET json_start == find(resp_text, <<"{">>)
           json_end == rfind(resp_text, <<"}">>)
       IN IF /\ json_start >= 0
             /\ json_end > json_start
             /\ ~JsonLoadsRaises(SubSeq(resp_text, json_start + 1, json_end + 1))
          THEN gem_result' = [kind |-> "dict"]
          ELSE gem_result' = extract_from_text(resp_text)
    /\ gem_pc' = "done"
    /\ UNCHANGED resp_text
    /\ UNCHANGED <<compareVars, itemVars, docVars, procVars, hyphenVars, streamlitVars>>

\* lines 1041-1047: the text between the fences, if there are fences
FencedContent(text) ==
    LET content == strip(text)
    IN IF IsSubstring(sJsonFence, content)
       THEN strip(SplitOn(SplitOn(content, sJsonFence)[2], sFence)[1])
       ELSE IF IsSubstring(sFence, content)
       THEN strip(SplitOn(SplitOn(content, sFence)[2], sFence)[1])
       ELSE content

\* process_invoice_async, lines 1041-1051 and 1161-1163: json.loads of the
\* content; JSONDecodeError is raised again as ValueError
ParseContent ==
    /\ proc_pc = "parse"
    /\ IF JsonLoadsRaises(FencedContent(resp_text))
       THEN /\ proc_pc' = "parse_failed"
            /\ UNCHANGED extracted_data
       ELSE /\ proc_pc' = "dates"
            /\ extracted_data' = EmptyObjectPayload
    /\ UNCHANGED <<compareVars, itemVars, docVars, extractVars, hyphenVars, streamlitVars>>

NextExtract == process_gemini_response \/ ParseContent \/ NextProc

MaxLines == 2

\* 'Invoice #123', 'Total: 45.00', 'No data 7', '{}', '{oops}', '```json', '```'
ResponseLines ==
    {<<"I", "n", "v", "o", "i", "c", "e", " ", "#", "1", "2", "3">>,
     <<"T", "o", "t", "a", "l", ":", " ", "4", "5", ".", "0", "0">>,
     <<"N", "o", " ", "d", "a", "t", "a", " ", "7">>,
     sEmptyObject,
     <<"{", "o", "o", "p", "s", "}">>,
     sJsonFence,
     sFence}

RECURSIVE JoinLines(_)
\* "\n".join(lines)
JoinLines(lines) ==
    IF lines = <<>> THEN <<>>
    ELSE IF Len(lines) = 1 THEN lines[1]
    ELSE lines[1] \o <<"\n">> \o JoinLines(Tail(lines))

\* the responses drawn: up to MaxLines lines, and a fenced JSON document
Responses ==
    {JoinLines(lines) : lines \in SeqsUpTo(ResponseLines, MaxLines)}
    \cup {JoinLines(<<sJsonFence, sEmptyObject, sFence>>)}

----------------------------------------------------------------------------
(* The Streamlit DocumentProcessor.compare_documents.  Prices are in       *)
(* thousandths; the prices drawn are either exactly 1% apart or far from   *)
(* it, where the double quotient and the exact quotient compare alike      *)
(* with 0.01.                                                              *)

sAcme == <<"A", "C", "M", "E">>
sAcmeLower == <<"a", "c", "m", "e">>
sGlobex == <<"G", "l", "o", "b", "e", "x">>

\* a contract service and an InvoiceItem of the Streamlit classes
SlService(name, price) == [service_name |-> name, unit_price |-> price]
SlItem(description, price) == [description |-> description, unit_price |-> price]

\* contract_services[name]: in the dict comprehension of lines 437-438 a
\* later service with the same lower-cased name replaces the earlier value
SlContractPrice(services, name) ==
    LET named == {i \in 1..Len(services) : lower(services[i].service_name) = name}
    IN services[CHOOSE i \in named : \A j \in named : j <= i].unit_price

\* service_name not in contract_services
SlNotInContract(services, name) ==
    \A i \in 1..Len(services) : lower(services[i].service_name) # name

\* numerator / denominator > 0.01, the quotient taking the sign of its
\* denominator
QuotientAboveOnePercent(numerator, denominator) ==
    IF denominator > 0 THEN numerator * 100 > denominator
    ELSE numerator * 100 < denominator

\* lines 455-481: the item's price is reported as a mismatch
PriceDiffers(invoice_price, contract_price) ==
    IF contract_price = 0 THEN invoice_price # 0
    ELSE QuotientAboveOnePercent(Abs(invoice_price - contract_price), contract_price)

\* lines 430-443: the flags and the issues list before the loop
CompareStart ==
    /\ sl_pc = "start"
    /\ sl_all_services_in_contract' = TRUE
    /\ sl_price_matches' = TRUE
    /\ sl_issues' = <<>>
    /\ sl_idx' = 0
    /\ sl_pc' = "loop"
    /\ UNCHANGED <<sl_contract, sl_invoice, sl_result>>
    /\ UNCHANGED <<compareVars, itemVars, docVars, procVars, hyphenVars, extractVars>>

\* lines 445-481: one iteration of the loop over invoice.items
CompareItem ==
    /\ sl_pc = "loop"
    /\ sl_idx < Len(sl_invoice.items)
    /\ LET item == sl_invoice.items[sl_idx + 1]
           service_name == lower(item.description)
       IN IF SlNotInContract(sl_contract.services, service_name)
          THEN /\ sl_all_services_in_contract' = FALSE
               /\ sl_issues' = Append(sl_issues, [type |-> "service_not_in_contract",
                                                  service_name |-> item.description])
               /\ UNCHANGED sl_price_matches
          ELSE LET contract_price == SlContractPrice(sl_contract.services, service_name)
               IN IF PriceDiffers(item.unit_price, contract_price)
                  THEN /\ sl_price_matches' = FALSE
                       /\ sl_issues' = Append(sl_issues,
                                              [type |-> "price_mismatch",
                                               service_name |-> item.description,
                                               contract_value |-> contract_price,
                                               invoice_value |-> item.unit_price])
                       /\ UNCHANGED sl_all_services_in_contract
                  ELSE UNCHANGED <<sl_issues, sl_price_matches, sl_all_services_in_contract>>
    /\ sl_idx' = sl_idx + 1
    /\ UNCHANGED <<sl_pc, sl_contract, sl_invoice, sl_result>>
    /\ UNCHANGED <<compareVars, itemVars, docVars, procVars, hyphenVars, extractVars>>

\* lines 483-506: the supplier issue, the flags and the ComparisonResult
CompareReturn ==
    /\ sl_pc = "loop"
    /\ sl_idx = Len(sl_invoice.items)
    /\ LET supplier_match == lower(sl_contract.supplier_name) = lower(sl_invoice.supplier_name)
           all_issues == IF supplier_match THEN sl_issues
                         ELSE Append(sl_issues,
                                     [type |-> "supplier_mismatch",
                                      contract_value |-> sl_contract.supplier_name,
                                      invoice_value |-> sl_invoice.supplier_name])
       IN /\ sl_issues' = all_issues
          /\ sl_result' =
                 [returned |-> TRUE,
                  contract_id |-> sl_contract.id,
                  matches |-> [supplier_name |-> supplier_match,
                               prices_match |-> sl_price_matches,
                               all_services_in_contract |-> sl_all_services_in_contract],
                  issues |-> all_issues,
                  overall_match |-> (supplier_match /\ sl_price_matches
                                     /\ sl_all_services_in_contract)]
    /\ sl_pc' = "done"
    /\ UNCHANGED <<sl_contract, sl_invoice, sl_idx, sl_price_matches,
                   sl_all_services_in_contract>>
    /\ UNCHANGED <<compareVars, itemVars, docVars, procVars, hyphenVars, extractVars>>

NextStreamlit == CompareStart \/ CompareItem \/ CompareReturn

\* contract prices above, at and below zero
SlServicePool ==
    {SlService(sConsulting, 100000),
     SlService(sConsultingLower, -100000),
     SlService(sTravel, 0),
     SlService(sDesignWeb, 50000)}

\* prices equal, 1% off, 2% off, far off, zero and negative
SlItemPool ==
    {SlItem(sConsulting, 100000),
     SlItem(sConsulting, 101000),
     SlItem(sConsulting, 102000),
     SlItem(sConsultingLower, -100000),
     SlItem(sConsultingLower, 50000),
     SlItem(sTravel, 0),
     SlItem(sTravel, 50000),
     SlItem(sDesignLogo, 50000)}

SlContracts ==
    [id : {"c1"}, supplier_name : {sAcme, sGlobex},
     services : SeqsUpTo(SlServicePool, MaxServices)]

SlInvoices ==
    [supplier_name : {sAcmeLower}, items : SeqsUpTo(SlItemPool, MaxItems)]

----------------------------------------------------------------------------
(* Specifications *)

StartOn(contracts, invoices) ==
    /\ contract \in contracts
    /\ invoice_data \in invoices
    /\ pc = "start"
    /\ contract_services = <<>>
    /\ idx = 0
    /\ issues = <<>>
    /\ matches = << >>
    /\ all_prices_match = TRUE
    /\ price_comparison_details = <<>>
    /\ exc = NoException
    /\ result = NoResult
    /\ item_pc = "idle"
    /\ item_raw = NoValues
    /\ item_values = NoValues
    /\ item_model = NoModel
    /\ DocIdle
    /\ ProcIdle
    /\ HyphenIdle
    /\ ExtractIdle
    /\ StreamlitIdle

Init == StartOn(Contracts(ServicePool), Invoices(ItemPool, Totals))

Spec == Init /\ [][Next]_vars

InitPrice == StartOn(Contracts(PriceServicePool), Invoices(PriceItemPool, Totals))

SpecPrice == InitPrice /\ [][Next]_vars

InitTier == StartOn(Contracts(TierServicePool), Invoices(TierItemPool, Totals))

SpecTier == InitTier /\ [][Next]_vars

\* empty and blank names and descriptions
sBlank == <<" ", " ">>

\* a contract with an empty and with a blank service name
BlankServicePool ==
    {Service(sConsulting, Num(100000)),
     Service(sEmpty, Num(50000)),
     Service(sBlank, Num(75000)),
     Service(sTravel, Bad)}

\* an invoice with a blank and with an empty description
BlankItemPool ==
    {Item(sBlank, Num(100000), Absent),
     Item(sEmpty, Num(100000), Absent),
     Item(sTravel, Num(50000), Absent),
     Item(sConsulting, Num(100000), Absent)}

InitBlank == StartOn(Contracts(BlankServicePool), Invoices(BlankItemPool, Totals))

SpecBlank == InitBlank /\ [][Next]_vars

\* InvoiceItemModel(**raw) on every raw item
InitItem ==
    /\ item_raw \in RawItems
    /\ item_values = item_raw
    /\ item_pc = "pre_root"
    /\ item_model = NoModel
    /\ contract = NoContract
    /\ invoice_data = NoInvoice
    /\ pc = "idle"
    /\ contract_services = <<>>
    /\ idx = 0
    /\ issues = <<>>
    /\ matches = << >>
    /\ all_prices_match = TRUE
    /\ price_comparison_details = <<>>
    /\ exc = NoException
    /\ result = NoResult
    /\ DocIdle
    /\ ProcIdle
    /\ HyphenIdle
    /\ ExtractIdle
    /\ StreamlitIdle

SpecItem == InitItem /\ [][NextItem]_vars

\* no reconciliation call and no single item is in progress
OthersIdle ==
    /\ contract = NoContract
    /\ invoice_data = NoInvoice
    /\ pc = "idle"
    /\ contract_services = <<>>
    /\ idx = 0
    /\ issues = <<>>
    /\ matches = << >>
    /\ all_prices_match = TRUE
    /\ price_comparison_details = <<>>
    /\ exc = NoException
    /\ result = NoResult
    /\ item_pc = "idle"
    /\ item_raw = NoValues
    /\ item_values = NoValues
    /\ item_model = NoModel
    /\ HyphenIdle
    /\ StreamlitIdle

\* ExtractedInvoiceModel(**raw) on every raw payload
InitDoc ==
    /\ doc_raw \in DocPayloads
    /\ doc_values = doc_raw
    /\ doc_pc = "pre_root"
    /\ doc_model = NoDoc
    /\ doc_first = NoDoc
    /\ ProcIdle
    /\ ExtractIdle
    /\ OthersIdle

SpecDoc == InitDoc /\ [][NextDoc]_vars

\* the two normalizers, each given the same JSON payload
InitProc ==
    /\ extracted_data \in ProcPayloads
    /\ proc_pc = "dates"
    /\ doc_raw = extracted_data
    /\ doc_values = doc_raw
    /\ doc_pc = "pre_root"
    /\ doc_model = NoDoc
    /\ doc_first = NoDoc
    /\ ExtractIdle
    /\ OthersIdle

SpecProc == InitProc /\ [][NextProc \/ NextDoc]_vars

\* normalize_hyphens on every drawn argument
InitHyphen ==
    /\ norm_text \in HyphenInputs
    /\ norm_pc = "start"
    /\ norm_out = NoneV
    /\ norm_again = NoneV
    /\ DocIdle
    /\ ProcIdle
    /\ ExtractIdle
    /\ StreamlitIdle
    /\ contract = NoContract
    /\ invoice_data = NoInvoice
    /\ pc = "idle"
    /\ contract_services = <<>>
    /\ idx = 0
    /\ issues = <<>>
    /\ matches = << >>
    /\ all_prices_match = TRUE
    /\ price_comparison_details = <<>>
    /\ exc = NoException
    /\ result = NoResult
    /\ item_pc = "idle"
    /\ item_raw = NoValues
    /\ item_values = NoValues
    /\ item_model = NoModel

SpecHyphen == InitHyphen /\ [][NextHyphen]_vars

\* the two extraction paths, each given the same response text
InitExtract ==
    /\ resp_text \in Responses
    /\ gem_pc = "start"
    /\ gem_result = NoPayload
    /\ proc_pc = "parse"
    /\ extracted_data = NoPayload
    /\ DocIdle
    /\ OthersIdle

SpecExtract == InitExtract /\ [][NextExtract]_vars

\* compare_documents on every drawn contract and invoice
InitStreamlit ==
    /\ sl_contract \in SlContracts
    /\ sl_invoice \in SlInvoices
    /\ sl_pc = "start"
    /\ sl_idx = 0
    /\ sl_issues = <<>>
    /\ sl_price_matches = TRUE
    /\ sl_all_services_in_contract = TRUE
    /\ sl_result = NoResult
    /\ contract = NoContract
    /\ invoice_data = NoInvoice
    /\ pc = "idle"
    /\ contract_services = <<>>
    /\ idx = 0
    /\ issues = <<>>
    /\ matches = << >>
    /\ all_prices_match = TRUE
    /\ price_comparison_details = <<>>
    /\ exc = NoException
    /\ result = NoResult
    /\ item_pc = "idle"
    /\ item_raw = NoValues
    /\ item_values = NoValues
    /\ item_model = NoModel
    /\ DocIdle
    /\ ProcIdle
    /\ HyphenIdle
    /\ ExtractIdle

SpecStreamlit == InitStreamlit /\ [][NextStreamlit]_vars

----------------------------------------------------------------------------
(* Properties of the reconciliation result *)

\* the call returned through lines 910-924
ReturnedNormally == result.returned /\ "price_comparison_details" \in DOMAIN result

\* the result carries both flags false, overall_match false and one issue of
\* the given kind
FailedWith(kind) ==
    /\ result.matches.prices_match = FALSE
    /\ result.matches.all_services_in_contract = FALSE
    /\ result.overall_match = FALSE
    /\ Len(result.issues) = 1
    /\ result.issues[1].type = kind

\* C1: reconciling an invoice with an empty item list against a contract
\* that has services returns both flags false, overall_match false and
\* exactly one issue, invoice_invalid.  (Stated of the calls in which
\* nothing raised.)
C1_EmptyInvoiceIsInvalid ==
    (/\ result.returned
     /\ exc = NoException
     /\ contract.present
     /\ Len(contract.services) > 0
     /\ Len(invoice_data.items[2]) = 0)
        => FailedWith("invoice_invalid")

\* C2: prices_match is false only if a matched item failed the price
\* comparison; an unmatched item leaves prices_match alone.  Contract
\* [Consulting @100] against invoice [Consulting Services @100, Travel @50]
\* yields all_services_in_contract false, prices_match true, overall_match
\* false and one issue, service_not_in_contract for Travel.
C2_UnmatchedLeavesPricesMatch ==
    /\ (ReturnedNormally /\ ~result.matches.prices_match)
           => \E k \in 1..Len(result.price_comparison_details) :
                  /\ result.price_comparison_details[k].contract_price # NoneV
                  /\ ~result.price_comparison_details[k].match
    /\ (/\ ReturnedNormally
        /\ contract.services = <<Service(sConsulting, Num(100000))>>
        /\ invoice_data.items[2] = <<Item(sConsultingServices, Num(100000), Absent),
                                     Item(sTravel, Num(50000), Absent)>>)
           => /\ result.matches.all_services_in_contract = FALSE
              /\ result.matches.prices_match = TRUE
              /\ result.overall_match = FALSE
              /\ Len(result.issues) = 1
              /\ result.issues[1].type = "service_not_in_contract"
              /\ result.issues[1].service_name = sTravel

\* C3: reconciling against a contract with no services (or no contract)
\* raises nothing and returns both flags false, overall_match false and
\* exactly one issue, contract_invalid, whatever the invoice holds.
C3_EmptyContractIsInvalid ==
    (~contract.present \/ Len(contract.services) = 0)
        => /\ pc \in {"start", "done"}
           /\ exc = NoException
           /\ pc = "done" => (result.returned /\ FailedWith("contract_invalid"))

\* C3: a contract with an empty services list was reconciled against an
\* invoice that has items
C3_Witness ==
    /\ pc = "done"
    /\ result.returned
    /\ contract.present
    /\ contract.services = <<>>
    /\ Len(invoice_data.items[2]) > 0
    /\ result.issues[1].type = "contract_invalid"

\* C4: price_comparison_details has exactly one entry per invoice item,
\* the i-th entry describing the i-th item.
C4_OneDetailPerItem ==
    ReturnedNormally
        => /\ Len(result.price_comparison_details) = Len(invoice_data.items[2])
           /\ \A i \in 1..Len(invoice_data.items[2]) :
                  /\ invoice_data.items[2][i].kind = "dict"
                  /\ result.price_comparison_details[i].service_name
                         = invoice_data.items[2][i].description

\* a loop iteration that matched its item and compared the prices
ComparedItem ==
    /\ pc = "loop"
    /\ idx' = idx + 1
    /\ Len(price_comparison_details') > Len(price_comparison_details)
    /\ price_comparison_details'[Len(price_comparison_details) + 1].contract_price # NoneV

\* the entry that iteration appended for the comparison
NewDetail == price_comparison_details'[Len(price_comparison_details) + 1]

\* the item's unit_price as a number of thousandths (0 when it has none)
RawUnitPrice(item) ==
    IF item.unit_price[1] \in {"num", "numstr"} THEN item.unit_price[2] ELSE 0

\* the value the code compares: unit_price, or total_price when unit_price
\* is 0, absent or unparseable and total_price is positive
ComparedPrice(item) ==
    IF RawUnitPrice(item) = 0 /\ item.total_price[1] \in {"num", "numstr"}
       /\ item.total_price[2] > 0
    THEN item.total_price[2]
    ELSE RawUnitPrice(item)

ZeroAgainstNegative(invoice_price, contract_price) ==
    \/ (invoice_price = 0 /\ contract_price < 0)
    \/ (contract_price = 0 /\ invoice_price < 0)

\* C5 as stated: a matched item's price comparison succeeds iff
\* |unit_price - contract price| <= 0.01 (so 100.010 against 100.000
\* matches) or one price is 0 and the other negative, the invoice-side value
\* being the item's unit_price.
C5_UnitPriceWithinTolerance ==
    [][ComparedItem =>
          LET unit_price == RawUnitPrice(invoice_data.items[2][idx + 1])
              contract_price == NewDetail.contract_price[2]
          IN NewDetail.match <=>
                 \/ Abs(unit_price - contract_price) <= 10
                 \/ ZeroAgainstNegative(unit_price, contract_price)]_vars

\* C5, amended: the value compared is unit_price, or total_price when
\* unit_price is 0 and total_price is positive; the comparison is made on
\* doubles, so an exact difference of at most 0.009 matches, one of at
\* least 0.011 does not (unless one price is 0 and the other negative),
\* and a difference of exactly 0.010 goes either way: 100.010 against
\* 100.000 does not match, 50.010 against 50.000 does.
C5_ComparedPriceWithinTolerance ==
    [][ComparedItem =>
          LET invoice_price == ComparedPrice(invoice_data.items[2][idx + 1])
              contract_price == NewDetail.contract_price[2]
              diff == Abs(invoice_price - contract_price)
          IN /\ NewDetail.invoice_price = invoice_price
             /\ (diff <= 9 \/ ZeroAgainstNegative(invoice_price, contract_price))
                    => NewDetail.match
             /\ (diff >= 11 /\ ~ZeroAgainstNegative(invoice_price, contract_price))
                    => ~NewDetail.match
             /\ (invoice_price = 100010 /\ contract_price = 100000) => ~NewDetail.match
             /\ (invoice_price = 50010 /\ contract_price = 50000) => NewDetail.match]_vars

\* C5: an item whose unit_price is unparseable and whose total_price is
\* 100.010 was compared, by its total_price, with a contract price of
\* 100.000, and did not match
C5_Witness ==
    /\ ReturnedNormally
    /\ Len(invoice_data.items[2]) > 0
    /\ invoice_data.items[2][1] = Item(sConsulting, Bad, Num(100010))
    /\ result.price_comparison_details[1].contract_price = Num(100000)
    /\ result.price_comparison_details[1].invoice_price = 100010
    /\ ~result.price_comparison_details[1].match

\* C6: in every returned result, overall_match is true iff every value of
\* matches is true.
C6_OverallIsAllMatches ==
    result.returned
        => (result.overall_match <=> \A k \in DOMAIN result.matches : result.matches[k])

\* C6: a normal completion with one flag true and the other false
C6_Witness ==
    /\ ReturnedNormally
    /\ result.matches.all_services_in_contract
    /\ ~result.matches.prices_match
    /\ ~result.overall_match

\* C7: no exception leaves the call: one raised while the contract or an
\* item is processed ends in a returned result with both flags false,
\* overall_match false and exactly one issue, comparison_error, the issues
\* gathered before it being dropped.
C7_ExceptionBecomesResult ==
    /\ pc = "done" => result.returned
    /\ pc = "except" => ENABLED HandleException
    /\ exc # NoException => pc \in {"except", "done"}
    /\ (exc # NoException /\ pc = "done") => FailedWith("comparison_error")

\* C7: a non-numeric total_price raised after an earlier item had added an
\* issue, and the call returned
C7_Witness ==
    /\ pc = "done"
    /\ exc = "ValueError"
    /\ Len(issues) > 0
    /\ idx > 0
    /\ invoice_data.items[2][idx + 1].total_price = Bad
    /\ result.returned

\* C8: the matcher's tiers apply in priority order, not contract order: an
\* exact-equal service wins over an earlier service that only passes the
\* substring or word test, a substring service wins over an earlier one
\* that only passes the word test, and the word test decides only when no
\* service passes the first two.
C8_TiersInPriorityOrder ==
    [][ComparedItem =>
          LET name == NormName(invoice_data.items[2][idx + 1].description)
              cs == contract_services
              price == NewDetail.contract_price[2]
              Exact(i) == cs[i].name = name
              Sub(i) == SubstringTest(name, cs[i].name)
              Words(i) == WordOverlapTest(name, cs[i].name)
          IN IF \E i \in 1..Len(cs) : Exact(i)
             THEN \E i \in 1..Len(cs) : Exact(i) /\ cs[i].price = price
             ELSE IF \E i \in 1..Len(cs) : Sub(i)
             THEN \E i \in 1..Len(cs) : Sub(i) /\ cs[i].price = price
             ELSE \E i \in 1..Len(cs) : Words(i) /\ cs[i].price = price]_vars

\* C8: the first item was matched to the second service, which equals it,
\* although the first service, at another price, contains it
C8_Witness ==
    /\ Len(contract_services) = 2
    /\ Len(price_comparison_details) > 0
    /\ LET name == NormName(invoice_data.items[2][1].description)
       IN /\ contract_services[1].name # name
          /\ SubstringTest(name, contract_services[1].name)
          /\ contract_services[2].name = name
          /\ contract_services[1].price # contract_services[2].price
          /\ price_comparison_details[1].contract_price = Num(contract_services[2].price)

\* C15: a matched item at price 0 against a negative contract price (or at
\* a negative price against contract price 0) adds no price_mismatch issue
\* and leaves prices_match alone, whatever the invoice's total is.
C15_ZeroAgainstNegativeAccepted ==
    [][(/\ ComparedItem
        /\ ZeroAgainstNegative(ComparedPrice(invoice_data.items[2][idx + 1]),
                               NewDetail.contract_price[2]))
           => /\ issues' = issues
              /\ all_prices_match' = all_prices_match]_vars

\* a loop iteration that went through the matcher (the item was not
\* skipped and nothing raised)
MatcherRan ==
    /\ pc = "loop"
    /\ idx' = idx + 1
    /\ Len(price_comparison_details') > Len(price_comparison_details)

\* the positions, in contract order, of the services whose normalized name
\* satisfies a tier's test against the item's normalized name
ExactPositions(name) ==
    {i \in 1..Len(contract.services) :
        NormName(contract.services[i].service_name) = name}

SubstringPositions(name) ==
    {i \in 1..Len(contract.services) :
        SubstringTest(name, NormName(contract.services[i].service_name))}

\* the word test, written out on the two word sets
SharesEnoughWords(name, contract_name) ==
    LET words == WordSet(name)
        common == words \cap WordSet(contract_name)
    IN \/ Cardinality(common) >= 2
       \/ (common # {} /\ 2 * Cardinality(common) >= Cardinality(words))

WordPositions(name) ==
    {i \in 1..Len(contract.services) :
        SharesEnoughWords(name, NormName(contract.services[i].service_name))}

Least(S) == CHOOSE i \in S : \A j \in S : i <= j

\* C16: in the substring tier and in the word-overlap tier the contract
\* item taken is the first one, in contract order, that passes the tier's
\* test, and the price compared is that item's unit_price, also when
\* several contract items have the same normalized description at
\* different prices.
C16_FirstInContractOrder ==
    [][MatcherRan =>
          LET name == NormName(invoice_data.items[2][idx + 1].description)
              services == contract.services
          IN IF ExactPositions(name) # {} THEN TRUE
             ELSE IF SubstringPositions(name) # {}
             THEN NewDetail.contract_price
                      = Num(services[Least(SubstringPositions(name))].unit_price[2])
             ELSE IF WordPositions(name) # {}
             THEN NewDetail.contract_price
                      = Num(services[Least(WordPositions(name))].unit_price[2])
             ELSE TRUE]_vars

\* C17: when the exact and substring tiers find nothing, the item is
\* matched iff some contract item shares with it at least 2 words, or at
\* least one word and at least half of the item's words, and it is matched
\* to such an item; "Web Design and Hosting" is matched this way to
\* "Hosting and Web Design Services"; an item no tier accepts is unmatched.
C17_WordOverlapRule ==
    [][MatcherRan =>
          LET name == NormName(invoice_data.items[2][idx + 1].description)
              cs == contract_services
              accepted == {i \in 1..Len(cs) : SharesEnoughWords(name, cs[i].name)}
          IN (ExactPositions(name) = {} /\ SubstringPositions(name) = {})
                 => /\ (NewDetail.contract_price # NoneV) <=> (accepted # {})
                    /\ accepted # {}
                           => \E i \in accepted :
                                  NewDetail.contract_price = Num(cs[i].price)
                    /\ accepted = {}
                           => /\ ~matches'.all_services_in_contract
                              /\ issues'[Len(issues')].type = "service_not_in_contract"
                    /\ (/\ name = NormName(sWebDesignAndHosting)
                        /\ \E i \in 1..Len(cs) :
                               cs[i].name = NormName(sHostingAndWebDesignServices))
                           => NewDetail.contract_price # NoneV]_vars

\* C17: "Design Logo" was matched, through the one word of its two that it
\* shares, to "Design Web", and "Logo Design Print", which shares one word
\* of three, was left unmatched
C17_Witness ==
    /\ Len(price_comparison_details) = 2
    /\ Len(contract_services) = 1
    /\ contract_services[1].name = NormName(sDesignWeb)
    /\ invoice_data.items[2] = <<Item(sDesignLogo, Num(100000), Absent),
                                 Item(sLogoDesignPrint, Num(100000), Absent)>>
    /\ price_comparison_details[1].contract_price = Num(100000)
    /\ price_comparison_details[2].contract_price = NoneV

\* the positions of the invoice items that went through the matcher and
\* that no contract service accepts at any tier
UnmatchedPositions ==
    {i \in 1..Len(invoice_data.items[2]) :
        LET item == invoice_data.items[2][i]
            name == NormName(item.description)
        IN /\ item.kind = "dict"
           /\ item.description # <<>>
           /\ ExactPositions(name) = {}
           /\ SubstringPositions(name) = {}
           /\ WordPositions(name) = {}}

\* the k-th element of a set of positions
Kth(S, k) == CHOOSE i \in S : Cardinality({j \in S : j < i}) = k - 1

IsNotInContract(issue) == issue.type = "service_not_in_contract"

\* C18: on the normal path all_services_in_contract is false iff some
\* invoice item was unmatched; the issues hold exactly one
\* service_not_in_contract issue per unmatched item, with the item's
\* original description; and the issues follow the order of the items
\* that produced them.
C18_IssuesFollowItems ==
    ReturnedNormally
        => LET items == invoice_data.items[2]
               not_in_contract == SelectSeq(result.issues, IsNotInContract)
           IN /\ ~result.matches.all_services_in_contract <=> UnmatchedPositions # {}
              /\ Len(not_in_contract) = Cardinality(UnmatchedPositions)
              /\ \A k \in 1..Len(not_in_contract) :
                     not_in_contract[k].service_name
                         = items[Kth(UnmatchedPositions, k)].description
              /\ \E producer \in [1..Len(result.issues) -> 1..Len(items)] :
                     /\ \A k \in 1..Len(result.issues) :
                            result.issues[k].service_name = items[producer[k]].description
                     /\ \A k \in 1..(Len(result.issues) - 1) :
                            producer[k] <= producer[k + 1]

\* C18: an unmatched item followed by a matched item at a wrong price
\* produced their two issues in that order
C18_Witness ==
    /\ ReturnedNormally
    /\ Len(result.issues) = 2
    /\ result.issues[1].type = "service_not_in_contract"
    /\ result.issues[1].service_name = invoice_data.items[2][1].description
    /\ result.issues[2].type = "price_mismatch"
    /\ ~result.matches.all_services_in_contract

\* C19: on every return path matches has exactly the keys prices_match and
\* all_services_in_contract, and never a supplier_name key.
C19_MatchesHasTwoKeys ==
    result.returned
        => DOMAIN result.matches = {"prices_match", "all_services_in_contract"}

----------------------------------------------------------------------------
(* Properties of the line-item normalizer *)

\* C9: the normalized quantity is 1.0 whenever the raw quantity is absent,
\* null or not parseable as a number.
C9_QuantityDefaultsToOne ==
    (item_pc = "done" /\ item_raw.quantity \in {Absent, NoneV, Bad})
        => item_model.quantity = 1000

\* C10: when the raw total is absent or null, the normalized total equals
\* the normalized quantity times the normalized unit_price, also when one
\* of the two was null or unparseable and was replaced by a default.
C10_TotalIsQuantityTimesUnitPrice ==
    (item_pc = "done" /\ item_raw.total_price \in {Absent, NoneV})
        => item_model.total_price
               = Num((item_model.quantity * item_model.unit_price) \div 1000)

----------------------------------------------------------------------------
(* Properties of the document normalizer *)

\* the first normalization of the raw payload has completed
NormalizedOnce == doc_pc = "done" /\ doc_first = NoDoc

\* the payload's stated total is a number (or numeric string) above zero
StatedTotalPositive ==
    doc_raw.total[1] \in {"num", "numstr"} /\ doc_raw.total[2] > 0

\* C11: a payload whose item list is empty or not a list and whose total is
\* strictly positive normalizes to exactly one item: "Unknown Item",
\* quantity 1.0, unit_price and total_price equal to the document total.
C11_SynthesizedItem ==
    (/\ NormalizedOnce
     /\ (doc_raw.items[1] # "list" \/ doc_raw.items[2] = <<>>)
     /\ StatedTotalPositive)
        => /\ doc_model.total = doc_raw.total[2]
           /\ Len(doc_model.items) = 1
           /\ doc_model.items[1].description = UnknownItem
           /\ doc_model.items[1].quantity = 1000
           /\ doc_model.items[1].unit_price = doc_raw.total[2]
           /\ doc_model.items[1].total_price = Num(doc_raw.total[2])

\* C11: a payload whose items value is null and whose total is the string
\* "500.0" was normalized to one item
C11_Witness ==
    /\ NormalizedOnce
    /\ doc_raw.items = <<"none", <<>>>>
    /\ doc_raw.total = NumStr(500000)
    /\ Len(doc_model.items) = 1
    /\ doc_model.items[1].unit_price = 500000

\* C13: normalizing the normalized document again yields a document
\* identical to the first in every field.
C13_Idempotent ==
    (doc_pc = "done" /\ doc_first # NoDoc) => doc_model = doc_first

\* C14: the normalizer never raises: every payload, also one with an item
\* that is no object, a null description or an unparseable total or
\* total_price, yields a document.
C14_NeverRaises == doc_pc # "raised"

\* the payload states no total, or null, or exactly 0
StatedTotalZero == doc_raw.total \in {Absent, NoneV, Num(0)}

\* C20: when the stated total is missing, null or 0, the normalized total
\* is the sum of the item totals if that sum is strictly positive and 0
\* otherwise; a stated non-zero total is never overwritten; so no
\* normalized invoice has total 0 with items whose totals sum above 0.
C20_TotalFromItems ==
    NormalizedOnce
        => LET sum == SumTotalPrices(doc_model.items)
           IN /\ StatedTotalZero
                     => doc_model.total = (IF sum > 0 THEN sum ELSE 0)
              /\ (doc_raw.total[1] \in {"num", "numstr"} /\ doc_raw.total[2] # 0)
                     => doc_model.total = doc_raw.total[2]
              /\ ~(doc_model.total = 0 /\ doc_model.items # <<>> /\ sum > 0)

\* C20: a payload with two items and no stated total got the sum of the
\* two item totals
C20_Witness ==
    /\ NormalizedOnce
    /\ doc_raw.total = Absent
    /\ Len(doc_model.items) = 2
    /\ doc_model.total = doc_model.items[1].total_price[2]
                             + doc_model.items[2].total_price[2]
    /\ doc_model.total > 0

\* C12: a payload with an empty item list and a total of 0.0 (or none)
\* keeps an empty item list, through the ExtractedInvoiceModel validators
\* and through the item defaulting of process_invoice_async.
C12_NoItemFromZeroTotal ==
    (doc_raw.items = <<"list", <<>>>> /\ doc_raw.total \in {Absent, Num(0)})
        => /\ NormalizedOnce => doc_model.items = <<>>
           /\ proc_pc = "done" => extracted_data.items[2] = <<>>

\* the raw date is missing, null, or a string that is no YYYY-MM-DD date
NoUsableDate(value) == value \in {DateAbsent, DateNone, DateBadStr}

\* C21: the normalized issue_date is never null, and is today's date when
\* the raw issue_date is missing, null or no valid YYYY-MM-DD string; the
\* normalized due_date is null under the same conditions.
C21_DateCoercion ==
    NormalizedOnce
        => /\ doc_model.issue_date # DateNone
           /\ NoUsableDate(doc_raw.issue_date) => doc_model.issue_date = DateObj(Today)
           /\ NoUsableDate(doc_raw.due_date) => doc_model.due_date = DateNone

----------------------------------------------------------------------------
(* Properties of normalize_hyphens *)

\* no hyphen of s has a space on either side
NoSpaceAtHyphen(s) ==
    \A i \in 1..Len(s) :
        s[i] = "-" => /\ (i > 1 => s[i - 1] # " ")
                      /\ (i < Len(s) => s[i + 1] # " ")

\* no two spaces of s are adjacent
NoDoubleSpace(s) == \A i \in 1..(Len(s) - 1) : ~(s[i] = " " /\ s[i + 1] = " ")

\* s neither starts nor ends with whitespace
Stripped(s) == s = <<>> \/ (s[1] \notin Whitespace /\ s[Len(s)] \notin Whitespace)

\* C23: normalize_hyphens returns, for every string, a string in which no
\* hyphen has a space on either side, no two spaces are adjacent and no
\* whitespace leads or trails; a second application changes nothing; a
\* non-string argument is returned unchanged.
C23_NormalizeHyphens ==
    /\ (norm_pc \in {"once", "twice"} /\ IsText(norm_text))
           => /\ IsText(norm_out)
              /\ NoSpaceAtHyphen(norm_out[2])
              /\ NoDoubleSpace(norm_out[2])
              /\ Stripped(norm_out[2])
    /\ norm_pc = "twice" => norm_again = norm_out
    /\ (norm_pc \in {"once", "twice"} /\ ~IsText(norm_text)) => norm_out = norm_text

\* C23: 'A - B' became 'A-B', and the second application returned 'A-B'
C23_Witness ==
    /\ norm_pc = "twice"
    /\ norm_text = Text(<<"A", " ", "-", " ", "B">>)
    /\ norm_out = Text(<<"A", "-", "B">>)
    /\ norm_again = norm_out

----------------------------------------------------------------------------
(* Properties of the item description *)

\* s is trimmed, has no whitespace next to a hyphen or a slash, and no two
\* consecutive whitespace characters
Canonical(s) ==
    /\ Stripped(s)
    /\ \A i \in 1..Len(s) :
           s[i] \in {"-", "/"} => /\ (i > 1 => s[i - 1] \notin Whitespace)
                                  /\ (i < Len(s) => s[i + 1] \notin Whitespace)
    /\ \A i \in 1..(Len(s) - 1) : ~(s[i] \in Whitespace /\ s[i + 1] \in Whitespace)

\* C22: the description of a normalized line item is in canonical form:
\* trimmed, no whitespace next to a hyphen or a slash, no repeated
\* whitespace.
C22_DescriptionCanonical ==
    item_pc = "done" => Canonical(item_model.description)

\* C24: the description of a normalized line item is never empty: a raw
\* description that is absent, null or the empty string (in an item whose
\* other fields are valid) is normalized to "Unknown Item".
C24_DescriptionNeverEmpty ==
    /\ item_pc = "done" => item_model.description # <<>>
    /\ (item_pc \in {"done", "raised"}
        /\ item_raw.total_price # Bad
        /\ item_raw.description \in {DescAbsent, DescNone, DescStr(sEmpty)})
           => item_pc = "done" /\ item_model.description = UnknownItem

----------------------------------------------------------------------------
(* Properties of the extraction from the response text *)

\* the text holds no JSON object ("{}" is the one the drawn texts can hold)
NoJsonObject(text) == ~IsSubstring(sEmptyObject, text)

\* C25: for a response text with no parsable JSON object the extraction
\* returns, and does not raise, a document with raw_text the text and every
\* other field at its default, whatever words or numbers the text holds,
\* through _process_gemini_response and through process_invoice_async.
C25_UnparsableTextGivesDefaults ==
    NoJsonObject(resp_text)
        => /\ gem_pc = "done" => gem_result = DefaultDocument(resp_text)
           /\ proc_pc # "parse_failed"

----------------------------------------------------------------------------
(* Further properties of the reconciliation *)

\* C26: reconciliation leaves its inputs as they were: no step of the call
\* changes the contract or the invoice payload that were passed in.
C26_InputsUnchanged ==
    [][contract' = contract /\ invoice_data' = invoice_data]_vars

\* both flags are true exactly when no issue has been reported
FlagsAgree(all_services_in_contract, prices_match, reported) ==
    (all_services_in_contract /\ prices_match) <=> reported = <<>>

C28_AtMostOneIssuePerItem ==
    pc = "loop" => Len(issues) <= idx

\* C29: the substring tier matches no pair in which a normalized name is
\* empty: a blank invoice description stays unmatched, a substring match is
\* never to a contract service with an empty or blank name, and an item
\* with an empty description is skipped without issue or detail entry.
C29_NoSubstringMatchOnEmpty ==
    [][(pc = "loop" /\ idx' = idx + 1)
          => LET item == invoice_data.items[2][idx + 1]
                 name == NormName(item.description)
                 accepted == {i \in 1..Len(contract_services) :
                                 SubstringTest(name, contract_services[i].name)}
             IN /\ (item.kind = "dict" /\ item.description = <<>>)
                       => /\ issues' = issues
                          /\ price_comparison_details' = price_comparison_details
                /\ (MatcherRan /\ ExactPositions(name) = {})
                       => /\ name = <<>> => NewDetail.contract_price = NoneV
                          /\ (accepted # {} /\ NewDetail.contract_price # NoneV)
                                 => contract_services[Least(accepted)].name # <<>>]_vars

----------------------------------------------------------------------------
(* Properties of the Streamlit comparison *)

\* the contract services whose lower-cased name is the given one
SlNamed(name) ==
    {i \in 1..Len(sl_contract.services) :
        lower(sl_contract.services[i].service_name) = name}

\* C30: for every invoice item whose lower-cased description is the name of
\* a contract service, a price_mismatch issue is reported and prices_match
\* is false whenever the invoice price differs from the contract price by
\* more than 1% of the contract price's magnitude, for negative and for
\* positive contract prices; a contract price of 0 matches only 0.
C30_PriceMismatchReported ==
    sl_result.returned
        => \A k \in 1..Len(sl_invoice.items) :
               LET item == sl_invoice.items[k]
                   named == SlNamed(lower(item.description))
               IN \A i \in named :
                      (/\ Cardinality(named) = 1
                       /\ LET contract_price == sl_contract.services[i].unit_price
                          IN IF contract_price = 0 THEN item.unit_price # 0
                             ELSE Abs(item.unit_price - contract_price) * 100
                                      > Abs(contract_price))
                          => /\ ~sl_result.matches.prices_match
                             /\ \E n \in 1..Len(sl_result.issues) :
                                    /\ sl_result.issues[n].type = "price_mismatch"
                                    /\ sl_result.issues[n].service_name = item.description
                                    /\ sl_result.issues[n].invoice_value = item.unit_price

====
